---------------------------- MODULE Spec2Model ----------------------------
(***************************************************************************)
(* Model of the adaptive LNS primal heuristic, src/src/scip/heur_lns.c.    *)
(*                                                                         *)
(* Conventions                                                             *)
(*  - a real that may be SCIPinfinity is a record [inf, val];              *)
(*  - a rate or a quotient (nodesquot, targetfixingrate, eps) is a         *)
(*    rational [num, den] with den > 0;                                    *)
(*  - memory is counted in bytes: the code's memory limit in megabytes is  *)
(*    kept multiplied by BytesPerMB, so that the divisions by 1048576.0    *)
(*    of determineLimits stay exact;                                       *)
(*  - a pointer that may be NULL is a record with the field alloc;         *)
(*  - a field the code never assigns holds a value drawn from Garbage.     *)
(***************************************************************************)
EXTENDS Integers, Sequences, FiniteSets, TLC

(***************************************************************************)
(* Program constants                                                       *)
(***************************************************************************)
NNEIGHBORHOODS == 3
DEFAULT_NODESOFFSET == 500
DEFAULT_MINNODES == 10
DEFAULT_MAXNODES == 5000
DEFAULT_NSOLSLIM == 3
DEFAULT_BESTSOLWEIGHT == 3
DEFAULT_INITSEED == 113
MUTATIONSEED == 121
CALLPENALTY == 100
BytesPerMB == 1048576
DEFAULT_NODESQUOT == [num |-> 1, den |-> 20]
LPLIMFAC == [num |-> 2, den |-> 1]

(***************************************************************************)
(* Bounds of the model                                                     *)
(***************************************************************************)
MaxCalls == 2        \* heurExecLns calls per outer solve
MaxSolves == 2       \* outer solves (heurInitLns .. heurExitLns)
MaxSubEvents == 2    \* events of the nested solves of one outer solve
MaxDraws == 3        \* length of the generator stream of the selector runs
RandMax == 2         \* the generator's words are 0 .. RandMax
NodeStep == 30       \* nodes the outer search processes between two calls
NodeChunk == 200     \* nodes a nested solve processes per node event
NVars == 4           \* variables of the outer problem
NBinInt == 3         \* binary and integer variables among them

Neighborhoods == 0 .. (NNEIGHBORHOODS - 1)
Garbage == {0, 7}

Inf == [inf |-> TRUE, val |-> 0]
Fin(v) == [inf |-> FALSE, val |-> v]
SCIPisInfinity(x) == x.inf

Max(a, b) == IF a >= b THEN a ELSE b
Min(a, b) == IF a <= b THEN a ELSE b

VARIABLES
    lifecycle,
    pc,
    result,
    outer,
    params,
    usednodes,
    epsgreedynh,
    exp3,
    nh,
    neighborhoodidx,
    nfixings,
    success,
    run,
    solvelimits,
    sub,
    accepted, acceptedbest,
    leaked,
    ncallsmade,
    nevents,
    nsolves,
    stream,
    picked,
    probvars,
    varbuf,
    valbuf,
    twin,
    nneighborhoods,
    incumbent,
    neighborhoods,
    outerbounds,
    objlimit,
    varmapf,
    subvars,
    submitted

vars == <<lifecycle, pc, result, outer, params, usednodes, epsgreedynh, exp3, nh,
          neighborhoodidx, nfixings, success, run, solvelimits, sub, accepted, acceptedbest,
          leaked, ncallsmade, nevents, nsolves, stream, picked, probvars, varbuf,
          valbuf, twin, nneighborhoods, incumbent, neighborhoods, outerbounds,
          objlimit, varmapf, subvars, submitted>>

\* the variable array of the problem and the buffers of fixings (followed in
\* SpecMutation) with the incumbent they are read from, the second selector
\* (SpecTwin), the number of included neighborhoods and their array, the
\* bounds of the outer solve with the objective limit of the sub-SCIP
\* (followed in SpecCutoff), the variable map of the copy
Rest == <<probvars, varbuf, valbuf, twin, nneighborhoods, incumbent, neighborhoods,
          outerbounds, objlimit, varmapf>>

(***************************************************************************)
(* determineLimits                                                         *)
(***************************************************************************)

\* limits/time minus the solving time, unless the limit is infinite
TimeLimitOf(o) ==
    IF SCIPisInfinity(o.timelimit) THEN Inf ELSE Fin(o.timelimit.val - o.time)

\* limits/memory minus the memory used and the external estimate (in bytes)
MemoryLimitOf(o) ==
    IF SCIPisInfinity(o.memlimit) THEN Inf
    ELSE Fin(o.memlimit.val * BytesPerMB - o.memused - o.memextern)

\* variants of the node limit: without the penalty of the calls, and with
\* the offset taken off
NodeLimitNoPenalty(o, p, used) ==
    ((p.nodesquot.num * o.nnodes) \div p.nodesquot.den) + p.nodesoffset - used

NodeLimitOffsetOff(o, p, used) ==
    ((p.nodesquot.num * o.nnodes) \div p.nodesquot.den)
        - p.nodesoffset - used - CALLPENALTY * o.ncalls

\* a variant of the node limit that does not subtract the nodes used so far
NodeLimitUsedOff(o, p, used) ==
    ((p.nodesquot.num * o.nnodes) \div p.nodesquot.den)
        + p.nodesoffset - CALLPENALTY * o.ncalls

\* (SCIP_Longint)(nodesquot * nnodes) + nodesoffset - usednodes - 100 * ncalls
NodeLimitOf(o, p, used) ==
    ((p.nodesquot.num * o.nnodes) \div p.nodesquot.den)
        + p.nodesoffset - used - CALLPENALTY * o.ncalls

\* variants of the run test: without the test of the time, and with a
\* strict test of the time
RunAgainNoTimeTest(o, p, used, runin) ==
    LET ml == MemoryLimitOf(o)
        r1 == IF ~ml.inf /\ ml.val <= 2 * o.memextern THEN FALSE ELSE runin
    IN  IF NodeLimitOf(o, p, used) < p.minnodes THEN FALSE ELSE r1

RunAgainStrictTime(o, p, used, runin) ==
    LET tl == TimeLimitOf(o)
        ml == MemoryLimitOf(o)
        r1 == IF (~tl.inf /\ tl.val < 0) \/ (~ml.inf /\ ml.val <= 2 * o.memextern)
              THEN FALSE ELSE runin
    IN  IF NodeLimitOf(o, p, used) < p.minnodes THEN FALSE ELSE r1

\* the value of *runagain on return, entered with the caller's value runin
RunAgainOf(o, p, used, runin) ==
    LET tl == TimeLimitOf(o)
        ml == MemoryLimitOf(o)
        r1 == IF (~tl.inf /\ tl.val <= 0) \/ (~ml.inf /\ ml.val <= 2 * o.memextern)
              THEN FALSE ELSE runin
    IN  IF NodeLimitOf(o, p, used) < p.minnodes THEN FALSE ELSE r1

determineLimits(o, p, used) ==
    [nodelimit |-> NodeLimitOf(o, p, used),
     memorylimit |-> MemoryLimitOf(o),
     timelimit |-> TimeLimitOf(o)]


(***************************************************************************)
(* Random number generators (SCIPrandomCreate, SCIPrandomGetReal,          *)
(* SCIPrandomGetInt are used, not defined, by heur_lns.c).  A generator is *)
(* [alloc, seed, pos]; the word it gives at position pos is read from the  *)
(* stream when the run fixes one, and is any word otherwise.               *)
(***************************************************************************)
RandWords == 0 .. RandMax

NoRng == [alloc |-> FALSE, seed |-> 0, pos |-> 0]
SCIPrandomCreate(seed) == [alloc |-> TRUE, seed |-> seed, pos |-> 0]
Advance(rng, n) == [rng EXCEPT !.pos = @ + n]

\* the words the generator can give at its next draw
NextWords(rng) ==
    IF stream = <<>> THEN RandWords
    ELSE IF rng.pos < Len(stream) THEN {stream[rng.pos + 1]} ELSE {}

\* a real of [0,1] from a word: both ends are attained
SCIPrandomGetReal(w) == [num |-> w, den |-> RandMax]

\* an integer of minv .. maxv from a word
SCIPrandomGetInt(w, minv, maxv) == minv + ((w * (maxv - minv + 1)) \div (RandMax + 1))

RatLess(a, b) == a.num * b.den < b.num * a.den
RatLeq(a, b) == a.num * b.den <= b.num * a.den

(***************************************************************************)
(* Epsilon greedy selector                                                 *)
(***************************************************************************)
NoEpsGreedy == [alloc |-> FALSE, eps |-> [num |-> 0, den |-> 1], rng |-> NoRng]

\* values the never assigned field eps can hold
EpsGarbage == {[num |-> 0, den |-> 1], [num |-> 1, den |-> 1]}

\* epsGreedyCreate allocates the selector and its generator; eps is not set
epsGreedyCreate(initseed, garbage) ==
    [alloc |-> TRUE, eps |-> garbage, rng |-> SCIPrandomCreate(initseed)]

epsNChoicesLns == nneighborhoods

\* nrunsbestsol / MAX(1.0, nruns * DEFAULT_BESTSOLWEIGHT)
epsRewardLns(n, i) ==
    [num |-> n[i].stats.nrunsbestsol,
     den |-> Max(1, n[i].stats.nruns * DEFAULT_BESTSOLWEIGHT)]

\* a variant of the loop that also replaces the best on an equal reward
RECURSIVE GreedyLoopLast(_, _, _, _)
GreedyLoopLast(n, j, best, nchoices) ==
    IF j >= nchoices THEN best
    ELSE GreedyLoopLast(n, j + 1,
                        IF RatLeq(epsRewardLns(n, best), epsRewardLns(n, j)) THEN j ELSE best,
                        nchoices)

\* the loop of the greedy branch: j runs over 1 .. nchoices - 1
RECURSIVE GreedyLoop(_, _, _, _)
GreedyLoop(n, j, best, nchoices) ==
    IF j >= nchoices THEN best
    ELSE GreedyLoop(n, j + 1,
                    IF RatLess(epsRewardLns(n, best), epsRewardLns(n, j)) THEN j ELSE best,
                    nchoices)

\* the test that sends epsGreedySelect into its greedy branch
PickBest(rand, eps) == RatLeq(rand, eps)

\* a variant of epsGreedySelect without the test of nchoices = 0
epsGreedySelectNoEmptyTest(eg, n, nchoices, w1, w2) ==
    IF PickBest(SCIPrandomGetReal(w1), eg.eps)
    THEN [i |-> GreedyLoop(n, 1, 0, nchoices), draws |-> 1]
    ELSE [i |-> SCIPrandomGetInt(w2, 0, nchoices - 1), draws |-> 2]

\* epsGreedySelect with the words w1, w2 of its generator: the index and
\* the number of draws taken
epsGreedySelect(eg, n, nchoices, w1, w2) ==
    IF nchoices = 0 THEN [i |-> -1, draws |-> 0]
    ELSE IF PickBest(SCIPrandomGetReal(w1), eg.eps)
         THEN [i |-> GreedyLoop(n, 1, 0, nchoices), draws |-> 1]
         ELSE [i |-> SCIPrandomGetInt(w2, 0, nchoices - 1), draws |-> 2]

\* no second selector
NoTwin == [eg |-> NoEpsGreedy, picked |-> <<>>]

(***************************************************************************)
(* Neighborhoods: 0 is "rens", 1 is "rins", 2 is "muta"                    *)
(* (includeNeighborhoods).  nh[i] holds the statistics, the fixing rate    *)
(* and, for the mutation neighborhood, the generator of data.mutation.     *)
(***************************************************************************)
RENS == 0
RINS == 1
MUTA == 2

Rat(a, b) == [num |-> a, den |-> b]

\* the memory of a neighborhood as lnsIncludeNeighborhood leaves it:
\* statistics and fixing rate are allocated, not assigned
UninitStats(g) ==
    [usednodes |-> g, lpiterations |-> g, totalgapclosed |-> g, nruns |-> g,
     nrunsbestsol |-> g, nsolsfound |-> g, nbestsolsfound |-> g, presolrounds |-> g,
     totalnbinfixings |-> g, totalnintfixings |-> g, totalnimplintfixings |-> g,
     totalncontfixings |-> g, totalnfixings |-> g]

lnsIncludeNeighborhood(g) ==
    [stats |-> UninitStats(g),
     fixingrate |-> [minfixingrate |-> Rat(g, 1), targetfixingrate |-> Rat(g, 1),
                     maxfixingrate |-> Rat(g, 1)],
     data |-> NoRng]

\* neighborhoodStatsReset assigns every field but totalnintfixings
neighborhoodStatsReset(st) ==
    [usednodes |-> 0, lpiterations |-> 0, totalgapclosed |-> 0, nruns |-> 0,
     nrunsbestsol |-> 0, nsolsfound |-> 0, nbestsolsfound |-> 0, presolrounds |-> 0,
     totalnbinfixings |-> 0, totalnintfixings |-> st.totalnintfixings,
     totalnimplintfixings |-> 0, totalncontfixings |-> 0, totalnfixings |-> 0]

\* a variant of fixingRateReset with target and maximum exchanged
fixingRateResetExchanged ==
    [minfixingrate |-> Rat(0, 1), targetfixingrate |-> Rat(1, 2), maxfixingrate |-> Rat(1, 4)]

fixingRateReset ==
    [minfixingrate |-> Rat(0, 1), targetfixingrate |-> Rat(1, 4), maxfixingrate |-> Rat(1, 2)]

\* neighborhoodInit: only the mutation neighborhood has an nhinit callback
neighborhoodInit(i, n) ==
    IF i = MUTA THEN [n EXCEPT !.data = SCIPrandomCreate(MUTATIONSEED)] ELSE n

\* a variant of neighborhoodExit that calls no callback
neighborhoodExitNoCallback(i, n) == n

\* neighborhoodExit: only the mutation neighborhood has an nhexit callback
neighborhoodExit(i, n) ==
    IF i = MUTA THEN [n EXCEPT !.data = NoRng] ELSE n

(***************************************************************************)
(* The array heurdata->neighborhoods and its count nneighborhoods: an      *)
(* entry holds the name of a neighborhood and its callbacks ("NULL" for    *)
(* none).                                                                  *)
(***************************************************************************)
\* SCIPincludeHeurLns allocates the array; includeNeighborhoods starts the
\* count at 0
NoRegistry == [neighborhoods |-> <<>>, nneighborhoods |-> 0]

\* a variant of the inclusion that leaves the count as it is
lnsIncludeNeighborhoodNoCount(reg, name, varfix, changesubscip, setupsubscip, nhinit, nhexit) ==
    [neighborhoods |->
        [k \in 1 .. Max(reg.nneighborhoods + 1, Len(reg.neighborhoods)) |->
            IF k = reg.nneighborhoods + 1
            THEN [name |-> name, varfixings |-> varfix, changesubscip |-> changesubscip,
                  setupsubscip |-> setupsubscip, nhinit |-> nhinit, nhexit |-> nhexit]
            ELSE reg.neighborhoods[k]],
     nneighborhoods |-> reg.nneighborhoods]

\* heurdata->neighborhoods[heurdata->nneighborhoods++] = (*neighborhood)
lnsIncludeNeighborhoodEntry(reg, name, varfix, changesubscip, setupsubscip, nhinit, nhexit) ==
    [neighborhoods |->
        [k \in 1 .. Max(reg.nneighborhoods + 1, Len(reg.neighborhoods)) |->
            IF k = reg.nneighborhoods + 1
            THEN [name |-> name, varfixings |-> varfix, changesubscip |-> changesubscip,
                  setupsubscip |-> setupsubscip, nhinit |-> nhinit, nhexit |-> nhexit]
            ELSE reg.neighborhoods[k]],
     nneighborhoods |-> reg.nneighborhoods + 1]

includeNeighborhoods ==
    LET rens == lnsIncludeNeighborhoodEntry(NoRegistry, "rens", "varFixingsRens",
                    "changeSubscipRens", "NULL", "NULL", "NULL")
        rins == lnsIncludeNeighborhoodEntry(rens, "rins", "varFixingsRins",
                    "NULL", "NULL", "NULL", "NULL")
    IN  lnsIncludeNeighborhoodEntry(rins, "muta", "varFixingsMutation",
            "NULL", "NULL", "nhInitMutation", "nhExitMutation")

\* the bounds of the outer solve and the objective limit of a sub-SCIP,
\* where a specification does not follow them
NoBounds == [upperbound |-> Inf, lowerbound |-> [inf |-> TRUE, val |-> 0]]
NoObjlimit == [set |-> FALSE, val |-> Rat(0, 1)]

(***************************************************************************)
(* Exp.3 selector                                                          *)
(***************************************************************************)
NoExp3 ==
    [alloc |-> FALSE, nactions |-> 0, ndraws |-> 0, probabilities |-> <<>>,
     cumulativegain |-> <<>>, rng |-> NoRng, initseed |-> 0]

\* a variant of expThreeReset that keeps a generator it finds allocated
expThreeResetKeepRng(e) ==
    [e EXCEPT !.ndraws = 0,
              !.probabilities = [i \in 1 .. e.nactions |-> Rat(1, e.nactions)],
              !.cumulativegain = [i \in 1 .. e.nactions |-> Rat(0, 1)],
              !.rng = IF e.rng.alloc THEN e.rng ELSE SCIPrandomCreate(e.initseed)]

\* ndraws, the uniform distribution, the gains of 0 and a new generator of
\* the seed stored at creation
expThreeReset(e) ==
    [e EXCEPT !.ndraws = 0,
              !.probabilities = [i \in 1 .. e.nactions |-> Rat(1, e.nactions)],
              !.cumulativegain = [i \in 1 .. e.nactions |-> Rat(0, 1)],
              !.rng = SCIPrandomCreate(e.initseed)]

expThreeCreate(nactions) ==
    expThreeReset([alloc |-> TRUE, nactions |-> nactions, ndraws |-> 0,
                   probabilities |-> <<>>, cumulativegain |-> <<>>, rng |-> NoRng,
                   initseed |-> DEFAULT_INITSEED])

(***************************************************************************)
(* Variable fixing callbacks, on the counts of the outer problem:          *)
(* in.haslp, in.lpopt       the node has an LP, solved to optimality       *)
(* in.hasinc, in.incorig    an incumbent exists, it lives in original space*)
(* in.nintegral             discrete variables with integral LP value      *)
(* in.nequal                discrete variables with LP value = incumbent   *)
(* Each gives [nfixings, success, draws]; success is the value *success    *)
(* has on return, entered with FALSE.                                      *)
(***************************************************************************)
varFixingsRens(o, in) ==
    IF ~in.haslp \/ ~in.lpopt \/ o.nbinint = 0
    THEN [nfixings |-> 0, success |-> FALSE, draws |-> 0]
    ELSE [nfixings |-> in.nintegral, success |-> TRUE, draws |-> 0]

varFixingsRins(o, in) ==
    IF ~in.haslp \/ ~in.lpopt \/ ~in.hasinc \/ in.incorig \/ o.nbinint = 0
    THEN [nfixings |-> 0, success |-> FALSE, draws |-> 0]
    ELSE [nfixings |-> in.nequal, success |-> TRUE, draws |-> 0]

\* (int)(targetfixingrate * nvars) + 1
NTargetFixings(rate, nvars) == ((rate.num * nvars) \div rate.den) + 1

\* the mutation callback never assigns *success
varFixingsMutation(o, in, rate) ==
    LET ntargetfixings == NTargetFixings(rate, o.nvars)
    IN  IF o.nbinint = 0 \/ ~in.hasinc \/ o.nbinint <= ntargetfixings
        THEN [nfixings |-> 0, success |-> FALSE, draws |-> 0]
        ELSE [nfixings |-> ntargetfixings, success |-> FALSE, draws |-> ntargetfixings]

varfixings(i, o, in, rate) ==
    CASE i = RENS -> varFixingsRens(o, in)
      [] i = RINS -> varFixingsRins(o, in)
      [] OTHER -> varFixingsMutation(o, in, rate)

\* the closing test of neighborhoodFixVariables:
\*   if( *success && nfixings >= targetfixingrate * nvars ) *success = TRUE;
FixingTest(succ, nfix, rate, nvars) ==
    IF succ /\ (nfix * rate.den >= rate.num * nvars) THEN TRUE ELSE succ

neighborhoodFixVariables(i, o, in, rate) ==
    LET r == varfixings(i, o, in, rate)
    IN  [r EXCEPT !.success = FixingTest(r.success, r.nfixings, rate, o.nvars)]

(***************************************************************************)
(* The outer solve, as the heuristic reads it                              *)
(***************************************************************************)
\* time and memory left to the outer solve: plenty, no time, little memory
Resources ==
    {[timelimit |-> Inf, time |-> 1, memlimit |-> Inf, memused |-> BytesPerMB,
      memextern |-> 0],
     [timelimit |-> Fin(2), time |-> 2, memlimit |-> Inf, memused |-> BytesPerMB,
      memextern |-> 0],
     [timelimit |-> Fin(2), time |-> 1, memlimit |-> Fin(4), memused |-> BytesPerMB,
      memextern |-> BytesPerMB]}

Problems == {[nvars |-> NVars, nbinint |-> NBinInt]}

OuterOf(r, prob) ==
    [nnodes |-> 0, ncalls |-> 0, nsolsfound |-> 0, nbestsolsfound |-> 0,
     timelimit |-> r.timelimit, time |-> r.time, memlimit |-> r.memlimit,
     memused |-> r.memused, memextern |-> r.memextern,
     nvars |-> prob.nvars, nbinint |-> prob.nbinint]

\* what a fixing callback reads of the LP and the incumbent at one call
\* (an LP value equal to the incumbent's value is integral); the LP values
\* are none or all integral, none or all equal to the incumbent's
FixingInputs(o) ==
    {in \in [haslp : BOOLEAN, lpopt : BOOLEAN, hasinc : BOOLEAN, incorig : BOOLEAN,
             nintegral : {0, o.nbinint}, nequal : {0, o.nbinint}] :
        /\ in.nequal <= in.nintegral
        /\ (in.lpopt => in.haslp)
        /\ (in.incorig => in.hasinc)}

\* the parameters SCIPincludeHeurLns adds, at their defaults
DefaultParams ==
    [nodesoffset |-> DEFAULT_NODESOFFSET, maxnodes |-> DEFAULT_MAXNODES,
     minnodes |-> DEFAULT_MINNODES, nodesquot |-> DEFAULT_NODESQUOT,
     minimprove |-> Rat(1, 50), nsolslim |-> DEFAULT_NSOLSLIM, banditalgo |-> "e",
     lplimfac |-> LPLIMFAC]

\* no sub-SCIP; changesubscipcalls and setupsubscipcalls count the calls of
\* the neighborhood's callbacks on the sub-SCIP, bestsol is its best solution
NoSub ==
    [alloc |-> FALSE, nnodes |-> 0, nlps |-> 0, nlpiterations |-> 0, nsols |-> 0,
     nbestsols |-> 0, interrupted |-> FALSE, nodelimit |-> 0,
     changesubscipcalls |-> 0, setupsubscipcalls |-> 0, bestsol |-> <<>>,
     eventhdlr |-> FALSE]

NoLimits == [nodelimit |-> 0, memorylimit |-> Inf, timelimit |-> Inf]

(***************************************************************************)
(* SCIPincludeHeurLns: the state after construction                        *)
(***************************************************************************)
Init ==
    /\ lifecycle = "included"
    /\ pc = "idle"
    /\ result = "none"
    /\ outer = OuterOf(CHOOSE r \in Resources : SCIPisInfinity(r.timelimit),
                       [nvars |-> NVars, nbinint |-> NBinInt])
    /\ params = DefaultParams
    /\ \E g \in Garbage :
          /\ usednodes = g
          /\ nh = [i \in Neighborhoods |-> lnsIncludeNeighborhood(g)]
    /\ epsgreedynh = NoEpsGreedy
    /\ exp3 = NoExp3
    /\ neighborhoodidx = 0
    /\ nfixings = 0
    /\ success = FALSE
    /\ run = TRUE
    /\ solvelimits = NoLimits
    /\ sub = NoSub
    /\ accepted = 0
    /\ acceptedbest = 0
    /\ leaked = 0
    /\ ncallsmade = 0
    /\ nevents = 0
    /\ nsolves = 0
    /\ stream = <<>>
    /\ picked = <<>>
    /\ probvars = <<>>
    /\ varbuf = <<>>
    /\ valbuf = <<>>
    /\ twin = NoTwin
    /\ incumbent = <<>>
    /\ neighborhoods = includeNeighborhoods.neighborhoods
    /\ outerbounds = NoBounds
    /\ objlimit = NoObjlimit
    /\ varmapf = <<>>
    /\ subvars = <<>>
    /\ submitted = <<>>
    /\ nneighborhoods = includeNeighborhoods.nneighborhoods

Locals == <<neighborhoodidx, nfixings, success, run, solvelimits>>

(***************************************************************************)
(* heurInitLns, heurExitLns, heurFreeLns                                   *)
(***************************************************************************)
heurInitLns ==
    /\ lifecycle \in {"included", "exited"}
    /\ nsolves < MaxSolves
    /\ epsgreedynh.alloc = FALSE
    /\ lifecycle' = "initialized"
    /\ nsolves' = nsolves + 1
    /\ nh' = [i \in Neighborhoods |->
                 [neighborhoodInit(i, nh[i]) EXCEPT
                     !.fixingrate = fixingRateReset,
                     !.stats = neighborhoodStatsReset(nh[i].stats)]]
    /\ \E g \in EpsGarbage : epsgreedynh' = epsGreedyCreate(DEFAULT_INITSEED, g)
    /\ exp3' = IF exp3.alloc THEN expThreeReset(exp3) ELSE expThreeCreate(NNEIGHBORHOODS)
    /\ usednodes' = 0
    /\ \E r \in Resources, prob \in Problems : outer' = OuterOf(r, prob)
    /\ ncallsmade' = 0
    /\ nevents' = 0
    /\ pc' = "idle"
    /\ result' = "none"
    /\ accepted' = 0
    /\ acceptedbest' = 0
    /\ neighborhoodidx' = 0
    /\ nfixings' = 0
    /\ success' = FALSE
    /\ run' = TRUE
    /\ solvelimits' = NoLimits
    /\ UNCHANGED <<params, sub, leaked, stream, picked, Rest, subvars, submitted>>

heurExitLns ==
    /\ lifecycle = "initialized"
    /\ pc \in {"idle", "error"}
    /\ epsgreedynh.alloc
    /\ lifecycle' = "exited"
    /\ epsgreedynh' = NoEpsGreedy
    /\ nh' = [i \in Neighborhoods |-> neighborhoodExit(i, nh[i])]
    /\ UNCHANGED <<pc, result, outer, params, usednodes, exp3, Locals, sub, accepted, acceptedbest,
                   leaked, ncallsmade, nevents, nsolves, stream, picked, Rest, subvars, submitted>>

\* the neighborhoods, their array and the heuristic data are freed; exp3 is not
heurFreeLns ==
    /\ lifecycle \in {"included", "exited"}
    /\ lifecycle' = "freed"
    /\ UNCHANGED <<pc, result, outer, params, usednodes, epsgreedynh, exp3, nh, Locals,
                   sub, accepted, acceptedbest, leaked, ncallsmade, nevents, nsolves,
                   stream, picked, Rest, subvars, submitted>>

(***************************************************************************)
(* The outer solve around a call: after the callback returns, SCIPheurExec *)
(* counts the call unless its result is DIDNOTRUN or DELAYED, and the      *)
(* outer search processes NodeStep nodes before it calls again.            *)
(***************************************************************************)
SCIPheurExecReturn(o, res) ==
    [o EXCEPT !.ncalls = IF res \in {"DIDNOTRUN", "DELAYED"} THEN @ ELSE @ + 1,
              !.nnodes = @ + NodeStep]

(***************************************************************************)
(* Statistics of one run                                                   *)
(***************************************************************************)
\* a variant of initNeighborhoodStatsRun that subtracts nothing
initNeighborhoodStatsRunKeep(st, o) == st

\* initNeighborhoodStatsRun: subtract the outer solve's solution counters
initNeighborhoodStatsRun(st, o) ==
    [st EXCEPT !.nbestsolsfound = @ - o.nbestsolsfound,
               !.nsolsfound = @ - o.nsolsfound]

\* a variant of the growth of nrunsbestsol that counts the run of a best
\* solution on top of its weight
BestSolGainOver(sb) ==
    IF sb.nbestsols > 0 THEN DEFAULT_BESTSOLWEIGHT + 1
    ELSE IF sb.nsols > 0 THEN 1 ELSE 0

\* the growth of nrunsbestsol, decided on the counters of the nested solve
BestSolGain(sb) ==
    IF sb.nbestsols > 0 THEN DEFAULT_BESTSOLWEIGHT
    ELSE IF sb.nsols > 0 THEN 1 ELSE 0

\* a variant of the growth of nruns
RunGainTwice == 1 + 1

\* the growth of nruns
RunGain == 1

\* a variant of updateNeighborhoodStats that leaves usednodes as it is
updateNeighborhoodStatsNoNodes(st, o, sb) ==
    [st EXCEPT !.lpiterations = @ + sb.nlpiterations,
               !.nbestsolsfound = @ + o.nbestsolsfound,
               !.nsolsfound = @ + o.nsolsfound,
               !.nrunsbestsol = @ + BestSolGain(sb),
               !.nruns = @ + RunGain]

updateNeighborhoodStats(st, o, sb) ==
    [st EXCEPT !.lpiterations = @ + sb.nlpiterations,
               !.nbestsolsfound = @ + o.nbestsolsfound,
               !.nsolsfound = @ + o.nsolsfound,
               !.nrunsbestsol = @ + BestSolGain(sb),
               !.usednodes = @ + sb.nnodes,
               !.nruns = @ + RunGain]

(***************************************************************************)
(* heurExecLns, from its entry to the call of SCIPsolve on the sub-SCIP    *)
(* or to its return                                                        *)
(***************************************************************************)
\* what epsGreedySelect can give, over the words of its generator
Selections ==
    {epsGreedySelect(epsgreedynh, nh, epsNChoicesLns, w1, w2) :
        w1 \in NextWords(epsgreedynh.rng), w2 \in RandWords}

\* what neighborhoodFixVariables can give for neighborhood i, over the LP
\* and the incumbent of the outer solve
FixingOutcomes(i) ==
    {neighborhoodFixVariables(i, outer, in, nh[i].fixingrate.targetfixingrate) :
        in \in FixingInputs(outer)}

\* the loop that stores the images of the variables under the map of the copy:
\*   subvars[v] = SCIPhashmapGetImage(varmapf, vars[v])
SubVarsOf(arr, map) == [k \in 1 .. Len(arr) |-> map[arr[k]]]

\* the result code on the path that builds a sub-SCIP
ResultOnRun == "DIDNOTFIND"

heurExecLns ==
    /\ lifecycle = "initialized"
    /\ pc = "idle"
    /\ ncallsmade < MaxCalls
    /\ ncallsmade' = ncallsmade + 1
    /\ accepted' = 0
    /\ acceptedbest' = 0
    /\ submitted' = <<>>
    /\ solvelimits' = determineLimits(outer, params, usednodes)
    /\ run' = RunAgainOf(outer, params, usednodes, TRUE)
    /\ IF ~run'
       THEN /\ result' = "DELAYED"
            /\ outer' = SCIPheurExecReturn(outer, result')
            /\ UNCHANGED <<pc, epsgreedynh, nh, neighborhoodidx, nfixings, success, sub,
                           leaked, subvars>>
       ELSE \E s \in Selections : \E f \in FixingOutcomes(s.i) :
               LET i == s.i
                   drawn == [nh EXCEPT ![i].data =
                                IF i = MUTA THEN Advance(@, f.draws) ELSE @]
               IN  /\ epsgreedynh' = [epsgreedynh EXCEPT !.rng = Advance(@, s.draws)]
                   /\ neighborhoodidx' = i
                   /\ nfixings' = f.nfixings
                   /\ success' = f.success
                   /\ IF ~f.success
                      THEN /\ result' = "DIDNOTRUN"
                           /\ nh' = drawn
                           /\ outer' = SCIPheurExecReturn(outer, result')
                           /\ UNCHANGED <<pc, sub, leaked, subvars>>
                      ELSE /\ result' = ResultOnRun
                           /\ nh' = [drawn EXCEPT ![i].stats =
                                        initNeighborhoodStatsRun(
                                            [@ EXCEPT !.totalnfixings = @ + f.nfixings],
                                            outer)]
                           /\ \/ /\ pc' = "solving"
                                 /\ sub' = [NoSub EXCEPT !.alloc = TRUE,
                                               !.nodelimit = solvelimits'.nodelimit,
                                               !.eventhdlr = TRUE]
                                 /\ subvars' = SubVarsOf(probvars, varmapf)
                                 /\ UNCHANGED <<outer, leaked>>
                              \/ /\ pc' = "error"
                                 /\ leaked' = leaked + 1
                                 /\ UNCHANGED <<outer, sub, subvars>>
    /\ UNCHANGED <<lifecycle, params, usednodes, exp3, nevents, nsolves, stream, picked, Rest>>

(***************************************************************************)
(* The nested solve: its events, as eventExecLns handles them              *)
(***************************************************************************)
InSolve ==
    /\ lifecycle = "initialized"
    /\ pc = "solving"
    /\ ~sub.interrupted
    /\ nevents < MaxSubEvents
    /\ nevents' = nevents + 1

SubFrame ==
    UNCHANGED <<lifecycle, pc, result, params, usednodes, epsgreedynh, exp3, nh, Locals,
                leaked, ncallsmade, nsolves, stream, picked, Rest, subvars>>

\* the nested solve processes nodes, within limits/nodes
SubNodes ==
    /\ InSolve
    /\ sub.nnodes + NodeChunk <= solvelimits.nodelimit
    /\ sub' = [sub EXCEPT !.nnodes = @ + NodeChunk]
    /\ UNCHANGED <<outer, accepted, acceptedbest, submitted>>
    /\ SubFrame

\* a variant of the test that interrupts at the product already
InterruptTestAtProduct(nlps, lplimfac, nodelimit) ==
    nlps * lplimfac.den >= lplimfac.num * nodelimit

\* SCIPgetNLPs(scip) > eventdata->lplimfac * eventdata->nodelimit
InterruptTest(nlps, lplimfac, nodelimit) ==
    nlps * lplimfac.den > lplimfac.num * nodelimit

\* SCIP_EVENTTYPE_LPSOLVED: interrupt if nlps > lplimfac * nodelimit, with
\* the factor and the node limit heurExecLns has copied into the event data
LPSolved ==
    /\ InSolve
    /\ LET nlps == sub.nlps + 1
       IN  sub' = [sub EXCEPT !.nlps = nlps, !.nlpiterations = @ + 1,
                      !.interrupted = InterruptTest(nlps, params.lplimfac,
                                                    solvelimits.nodelimit)]
    /\ UNCHANGED <<outer, accepted, acceptedbest, submitted>>
    /\ SubFrame

\* the best solutions a sub-SCIP with these variables can report
SubSolutions(subv) ==
    LET ids == {subv[k] : k \in 1 .. Len(subv)}
    IN  IF ids = {} THEN {<<>>}
        ELSE {[x \in ids |-> x % 10], [x \in ids |-> (x * x) % 7]}

\* a variant of transferSolution that reads subvars at the number of the
\* variable, not at its place in the array
transferSolutionByNumber(arr, subv, subsol) ==
    [v \in {arr[k] : k \in 1 .. Len(arr)} |-> subsol[subv[v]]]

\* transferSolution: SCIPgetSolVals reads the values of subvars[0 .. nvars-1]
\* in the best solution of the sub-SCIP, SCIPsetSolVals gives them to
\* vars[0 .. nvars-1] in the new solution
transferSolution(arr, subv, subsol) ==
    LET subsolvals == [k \in 1 .. Len(arr) |-> subsol[subv[k]]]
    IN  [v \in {arr[k] : k \in 1 .. Len(arr)} |->
            subsolvals[CHOOSE k \in 1 .. Len(arr) : arr[k] = v]]

\* SCIP_EVENTTYPE_BESTSOLFOUND: transferSolution hands the solution to the
\* outer solve, which rejects it, stores it, or stores it as its new best
BestSolFound ==
    /\ InSolve
    /\ \E s \in SubSolutions(subvars) :
          /\ sub' = [sub EXCEPT !.nsols = @ + 1, !.nbestsols = @ + 1, !.bestsol = s]
          /\ submitted' = Append(submitted, transferSolution(probvars, subvars, s))
    /\ \E outcome \in {"rejected", "stored", "best"} :
          /\ outer' = [outer EXCEPT
                          !.nsolsfound = @ + (IF outcome = "rejected" THEN 0 ELSE 1),
                          !.nbestsolsfound = @ + (IF outcome = "best" THEN 1 ELSE 0)]
          /\ accepted' = accepted + (IF outcome = "rejected" THEN 0 ELSE 1)
          /\ acceptedbest' = acceptedbest + (IF outcome = "best" THEN 1 ELSE 0)
    /\ SubFrame

\* SCIPsolve returns SCIP_OKAY: statistics, node account, SCIPfree, return
heurExecLnsFinish ==
    /\ lifecycle = "initialized"
    /\ pc = "solving"
    /\ nh' = [nh EXCEPT ![neighborhoodidx].stats = updateNeighborhoodStats(@, outer, sub)]
    /\ usednodes' = usednodes + sub.nnodes
    /\ sub' = NoSub
    /\ pc' = "idle"
    /\ accepted' = 0
    /\ acceptedbest' = 0
    /\ subvars' = <<>>
    /\ submitted' = <<>>
    /\ neighborhoodidx' = 0
    /\ nfixings' = 0
    /\ success' = FALSE
    /\ run' = TRUE
    /\ solvelimits' = NoLimits
    /\ outer' = SCIPheurExecReturn(outer, result)
    /\ UNCHANGED <<lifecycle, result, params, epsgreedynh, exp3, leaked,
                   ncallsmade, nevents, nsolves, stream, picked, Rest>>

\* SCIPsolve returns an error: SCIP_CALL_ABORT ends the process (where the
\* build compiles the abort away, the call goes on as heurExecLnsFinish)
SolveAborts ==
    /\ lifecycle = "initialized"
    /\ pc = "solving"
    /\ pc' = "aborted"
    /\ UNCHANGED <<lifecycle, result, outer, params, usednodes, epsgreedynh, exp3, nh,
                   Locals, sub, accepted, acceptedbest, leaked, ncallsmade, nevents,
                   nsolves, stream, picked, Rest, subvars, submitted>>

Next ==
    \/ heurInitLns
    \/ heurExitLns
    \/ heurFreeLns
    \/ heurExecLns
    \/ SubNodes
    \/ LPSolved
    \/ BestSolFound
    \/ heurExecLnsFinish
    \/ SolveAborts

Spec == Init /\ [][Next]_vars

(***************************************************************************)
(* determineLimits alone: the budget check of heurExecLns (run = TRUE,     *)
(* then determineLimits) on outer states, parameters and node accounts     *)
(* drawn from bounded sets                                                 *)
(***************************************************************************)
LimitOuters ==
    [nnodes : {0, 19, 20, 30, 100000}, ncalls : {0, 1, 5}, nsolsfound : {0}, nbestsolsfound : {0},
     timelimit : {Inf, Fin(2)}, time : {1, 2, 3},
     memlimit : {Inf, Fin(4)}, memused : {0, BytesPerMB},
     memextern : {0, BytesPerMB \div 2, BytesPerMB},
     nvars : {NVars}, nbinint : {NBinInt}]

LimitParams ==
    {[DefaultParams EXCEPT !.nodesquot = q, !.nodesoffset = ofs, !.minnodes = m] :
        q \in {Rat(0, 1), DEFAULT_NODESQUOT, Rat(1, 2), Rat(1, 1)},
        ofs \in {0, 9, 10, DEFAULT_NODESOFFSET},
        m \in {0, DEFAULT_MINNODES}}

LimitUsedNodes == {0, 1, 400}

InitLimits ==
    /\ lifecycle = "initialized"
    /\ pc = "idle"
    /\ result = "none"
    /\ outer \in LimitOuters
    /\ params \in LimitParams
    /\ usednodes \in LimitUsedNodes
    /\ nh = [i \in Neighborhoods |->
                [neighborhoodInit(i, lnsIncludeNeighborhood(0)) EXCEPT
                    !.fixingrate = fixingRateReset]]
    /\ epsgreedynh = epsGreedyCreate(DEFAULT_INITSEED, Rat(0, 1))
    /\ exp3 = expThreeCreate(NNEIGHBORHOODS)
    /\ neighborhoodidx = 0
    /\ nfixings = 0
    /\ success = FALSE
    /\ run = TRUE
    /\ solvelimits = NoLimits
    /\ sub = NoSub
    /\ accepted = 0
    /\ acceptedbest = 0
    /\ leaked = 0
    /\ ncallsmade = 0
    /\ nevents = 0
    /\ nsolves = 1
    /\ stream = <<>>
    /\ picked = <<>>
    /\ probvars = <<>>
    /\ varbuf = <<>>
    /\ valbuf = <<>>
    /\ twin = NoTwin
    /\ incumbent = <<>>
    /\ neighborhoods = includeNeighborhoods.neighborhoods
    /\ outerbounds = NoBounds
    /\ objlimit = NoObjlimit
    /\ varmapf = <<>>
    /\ subvars = <<>>
    /\ submitted = <<>>
    /\ nneighborhoods = includeNeighborhoods.nneighborhoods

\* heurExecLns up to its test of run
BudgetCheck ==
    /\ pc = "idle"
    /\ pc' = "limits"
    /\ solvelimits' = determineLimits(outer, params, usednodes)
    /\ run' = RunAgainOf(outer, params, usednodes, TRUE)
    /\ UNCHANGED <<lifecycle, result, outer, params, usednodes, epsgreedynh, exp3, nh,
                   neighborhoodidx, nfixings, success, sub, accepted, acceptedbest, leaked, ncallsmade,
                   nevents, nsolves, stream, picked, Rest, subvars, submitted>>

SpecLimits == InitLimits /\ [][BudgetCheck]_vars

(***************************************************************************)
(* epsGreedySelect alone: repeated selections over a generator whose       *)
(* stream of words is fixed by the seed, for every eps and for run         *)
(* statistics drawn from a bounded set                                     *)
(***************************************************************************)
\* (nruns, nrunsbestsol) of a neighborhood
RunRecords == {<<0, 0>>, <<1, 0>>, <<1, 1>>, <<1, 3>>, <<2, 3>>}

EpsValues == {Rat(0, 1), Rat(1, 2), Rat(1, 1)}

InitEps ==
    /\ lifecycle = "initialized"
    /\ pc = "idle"
    /\ result = "none"
    /\ outer = OuterOf(CHOOSE r \in Resources : SCIPisInfinity(r.timelimit),
                       [nvars |-> NVars, nbinint |-> NBinInt])
    /\ params = DefaultParams
    /\ usednodes = 0
    /\ \E rr \in [Neighborhoods -> RunRecords] :
          nh = [i \in Neighborhoods |->
                   [neighborhoodInit(i, lnsIncludeNeighborhood(0)) EXCEPT
                       !.fixingrate = fixingRateReset,
                       !.stats.nruns = rr[i][1],
                       !.stats.nrunsbestsol = rr[i][2]]]
    /\ \E e \in EpsValues : epsgreedynh = epsGreedyCreate(DEFAULT_INITSEED, e)
    /\ exp3 = expThreeCreate(NNEIGHBORHOODS)
    /\ neighborhoodidx = 0
    /\ nfixings = 0
    /\ success = FALSE
    /\ run = TRUE
    /\ solvelimits = NoLimits
    /\ sub = NoSub
    /\ accepted = 0
    /\ acceptedbest = 0
    /\ leaked = 0
    /\ ncallsmade = 0
    /\ nevents = 0
    /\ nsolves = 1
    /\ stream \in [1 .. MaxDraws -> RandWords]
    /\ picked = <<>>
    /\ probvars = <<>>
    /\ varbuf = <<>>
    /\ valbuf = <<>>
    /\ twin = NoTwin
    /\ incumbent = <<>>
    /\ outerbounds = NoBounds
    /\ objlimit = NoObjlimit
    /\ varmapf = <<>>
    /\ subvars = <<>>
    /\ submitted = <<>>
    /\ nneighborhoods \in 0 .. includeNeighborhoods.nneighborhoods
    /\ neighborhoods = SubSeq(includeNeighborhoods.neighborhoods, 1, nneighborhoods)

\* one call of epsGreedySelect, as heurExecLns makes it
SelectStep ==
    /\ pc = "idle"
    /\ Len(picked) < MaxDraws
    /\ \E w1 \in NextWords(epsgreedynh.rng) :
       \E w2 \in IF PickBest(SCIPrandomGetReal(w1), epsgreedynh.eps) THEN {w1}
                 ELSE NextWords(Advance(epsgreedynh.rng, 1)) :
          LET s == epsGreedySelect(epsgreedynh, nh, epsNChoicesLns, w1, w2)
          IN  /\ neighborhoodidx' = s.i
              /\ picked' = Append(picked, s.i)
              /\ epsgreedynh' = [epsgreedynh EXCEPT !.rng = Advance(@, s.draws)]
    /\ UNCHANGED <<lifecycle, pc, result, outer, params, usednodes, exp3, nh, nfixings,
                   success, run, solvelimits, sub, accepted, acceptedbest, leaked,
                   ncallsmade, nevents, nsolves, stream, Rest, subvars, submitted>>

SpecEps == InitEps /\ [][SelectStep]_vars

(***************************************************************************)
(* Two runs of the epsilon greedy selector: both selectors are created by  *)
(* epsGreedyCreate with the same seed (they read the same stream of words) *)
(* and select against the same statistics, call after call                 *)
(***************************************************************************)
InitTwin ==
    /\ lifecycle = "initialized"
    /\ pc = "idle"
    /\ result = "none"
    /\ outer = OuterOf(CHOOSE r \in Resources : SCIPisInfinity(r.timelimit),
                       [nvars |-> NVars, nbinint |-> NBinInt])
    /\ params = DefaultParams
    /\ usednodes = 0
    /\ \E rr \in [Neighborhoods -> RunRecords] :
          nh = [i \in Neighborhoods |->
                   [neighborhoodInit(i, lnsIncludeNeighborhood(0)) EXCEPT
                       !.fixingrate = fixingRateReset,
                       !.stats.nruns = rr[i][1],
                       !.stats.nrunsbestsol = rr[i][2]]]
    /\ \E g \in EpsGarbage : epsgreedynh = epsGreedyCreate(DEFAULT_INITSEED, g)
    /\ \E g \in EpsGarbage :
          twin = [eg |-> epsGreedyCreate(DEFAULT_INITSEED, g), picked |-> <<>>]
    /\ exp3 = expThreeCreate(NNEIGHBORHOODS)
    /\ neighborhoodidx = 0
    /\ nfixings = 0
    /\ success = FALSE
    /\ run = TRUE
    /\ solvelimits = NoLimits
    /\ sub = NoSub
    /\ accepted = 0
    /\ acceptedbest = 0
    /\ leaked = 0
    /\ ncallsmade = 0
    /\ nevents = 0
    /\ nsolves = 1
    /\ stream \in [1 .. MaxDraws -> RandWords]
    /\ picked = <<>>
    /\ probvars = <<>>
    /\ varbuf = <<>>
    /\ valbuf = <<>>
    /\ incumbent = <<>>
    /\ neighborhoods = includeNeighborhoods.neighborhoods
    /\ outerbounds = NoBounds
    /\ objlimit = NoObjlimit
    /\ varmapf = <<>>
    /\ subvars = <<>>
    /\ submitted = <<>>
    /\ nneighborhoods = includeNeighborhoods.nneighborhoods

\* what a selector can give at its next call, over the words of its generator
SelectionsOf(eg) ==
    UNION {{epsGreedySelect(eg, nh, epsNChoicesLns, w1, w2) :
                w2 \in IF PickBest(SCIPrandomGetReal(w1), eg.eps) THEN {w1}
                       ELSE NextWords(Advance(eg.rng, 1))} :
           w1 \in NextWords(eg.rng)}

\* the same call of epsGreedySelect in both runs
TwinSelect ==
    /\ pc = "idle"
    /\ Len(picked) < MaxDraws
    /\ \E s \in SelectionsOf(epsgreedynh) : \E t \in SelectionsOf(twin.eg) :
          /\ neighborhoodidx' = s.i
          /\ picked' = Append(picked, s.i)
          /\ epsgreedynh' = [epsgreedynh EXCEPT !.rng = Advance(@, s.draws)]
          /\ twin' = [eg |-> [twin.eg EXCEPT !.rng = Advance(@, t.draws)],
                      picked |-> Append(twin.picked, t.i)]
    /\ UNCHANGED <<lifecycle, pc, result, outer, params, usednodes, exp3, nh, nfixings,
                   success, run, solvelimits, sub, accepted, acceptedbest, leaked,
                   ncallsmade, nevents, nsolves, stream, probvars, varbuf, valbuf,
                   nneighborhoods, incumbent, neighborhoods, outerbounds, objlimit,
                   varmapf, subvars, submitted>>

SpecTwin == InitTwin /\ [][TwinSelect]_vars

(***************************************************************************)
(* The mutation neighborhood on the variable array of the problem.         *)
(* Variables are numbered 1 .. nvars, the discrete ones are 1 .. nbinint   *)
(* and come first in the array (SCIPgetVarsData gives the array of the     *)
(* problem itself, binaries before integers); the incumbent is the         *)
(* sequence of its values, <<>> when SCIPgetBestSol gives NULL; varbuf     *)
(* and valbuf hold the entries written by the callback.                    *)
(***************************************************************************)
\* the calls of the mutation callback in one behaviour
MaxFixCalls == 1

\* the draws SCIPrandomGetInt(rng, i, nbinintvars - 1), i = 0 ..
\* ntargetfixings - 1, of the loop; the loop is not reached with too few
\* discrete variables
DrawSequences(ntargetfixings, nbinintvars) ==
    IF nbinintvars <= ntargetfixings THEN {<<>>}
    ELSE {d \in [1 .. ntargetfixings -> 0 .. (nbinintvars - 1)] :
             \A i \in 1 .. ntargetfixings : d[i] >= i - 1}

\* SCIPswapPointers on the entries i and j (counted from 0) of an array
SCIPswapPointers(arr, i, j) == [arr EXCEPT ![i + 1] = arr[j + 1], ![j + 1] = arr[i + 1]]

SCIPgetSolVal(sol, v) == sol[v]

\* a variant of the loop that takes the drawn entry where it stands
RECURSIVE MutationLoopNoSwap(_, _, _, _, _, _, _)
MutationLoopNoSwap(arr, sol, vbuf, valb, i, ntargetfixings, draws) ==
    IF i >= ntargetfixings THEN [vars |-> arr, varbuf |-> vbuf, valbuf |-> valb]
    ELSE LET rand == draws[i + 1]
         IN  MutationLoopNoSwap(arr, sol,
                                Append(vbuf, arr[rand + 1]),
                                Append(valb, SCIPgetSolVal(sol, arr[rand + 1])),
                                i + 1, ntargetfixings, draws)

\* the loop of varFixingsMutation from its index i on
RECURSIVE MutationLoop(_, _, _, _, _, _, _)
MutationLoop(arr, sol, vbuf, valb, i, ntargetfixings, draws) ==
    IF i >= ntargetfixings THEN [vars |-> arr, varbuf |-> vbuf, valbuf |-> valb]
    ELSE LET rand == draws[i + 1]
             swapped == IF rand > i THEN SCIPswapPointers(arr, i, rand) ELSE arr
         IN  MutationLoop(swapped, sol,
                          Append(vbuf, swapped[i + 1]),
                          Append(valb, SCIPgetSolVal(sol, swapped[i + 1])),
                          i + 1, ntargetfixings, draws)

\* varFixingsMutation on the array: what it leaves in the array, in the
\* buffers, in *nfixings and in *success (entered with FALSE)
varFixingsMutationOn(o, arr, sol, rate, draws) ==
    LET ntargetfixings == NTargetFixings(rate, o.nvars)
    IN  IF o.nbinint = 0 \/ sol = <<>> \/ o.nbinint <= ntargetfixings
        THEN [vars |-> arr, varbuf |-> <<>>, valbuf |-> <<>>, nfixings |-> 0,
              success |-> FALSE, draws |-> 0]
        ELSE LET r == MutationLoop(arr, sol, <<>>, <<>>, 0, ntargetfixings, draws)
             IN  [vars |-> r.vars, varbuf |-> r.varbuf, valbuf |-> r.valbuf,
                  nfixings |-> ntargetfixings, success |-> FALSE,
                  draws |-> ntargetfixings]

\* problems of 4, 5, 8 and 10 variables
MutationProblems ==
    {[nvars |-> 4, nbinint |-> 3], [nvars |-> 8, nbinint |-> 5],
     [nvars |-> 8, nbinint |-> 3], [nvars |-> 5, nbinint |-> 0],
     [nvars |-> 10, nbinint |-> 10]}

\* an incumbent of the problem: integral values on the discrete variables
IncumbentOf(prob) == [v \in 1 .. prob.nvars |-> v % 3]

InitMutation ==
    /\ lifecycle = "initialized"
    /\ pc = "idle"
    /\ result = "none"
    /\ \E prob \in MutationProblems :
          /\ outer = OuterOf(CHOOSE r \in Resources : SCIPisInfinity(r.timelimit), prob)
          /\ probvars = [k \in 1 .. prob.nvars |-> k]
          /\ incumbent \in {<<>>, IncumbentOf(prob)}
    /\ params = DefaultParams
    /\ usednodes = 0
    /\ nh = [i \in Neighborhoods |->
                [neighborhoodInit(i, lnsIncludeNeighborhood(0)) EXCEPT
                    !.fixingrate = fixingRateReset,
                    !.stats = neighborhoodStatsReset(@)]]
    /\ epsgreedynh = epsGreedyCreate(DEFAULT_INITSEED, Rat(0, 1))
    /\ exp3 = expThreeCreate(NNEIGHBORHOODS)
    /\ neighborhoodidx = MUTA
    /\ nfixings = 0
    /\ success = FALSE
    /\ run = TRUE
    /\ solvelimits = NoLimits
    /\ sub = NoSub
    /\ accepted = 0
    /\ acceptedbest = 0
    /\ leaked = 0
    /\ ncallsmade = 0
    /\ nevents = 0
    /\ nsolves = 1
    /\ stream = <<>>
    /\ picked = <<>>
    /\ varbuf = <<>>
    /\ valbuf = <<>>
    /\ twin = NoTwin
    /\ neighborhoods = includeNeighborhoods.neighborhoods
    /\ outerbounds = NoBounds
    /\ objlimit = NoObjlimit
    /\ varmapf = <<>>
    /\ subvars = <<>>
    /\ submitted = <<>>
    /\ nneighborhoods = includeNeighborhoods.nneighborhoods

\* neighborhoodFixVariables for the mutation neighborhood, on fresh buffers
FixMutation ==
    /\ pc = "idle"
    /\ ncallsmade < MaxFixCalls
    /\ ncallsmade' = ncallsmade + 1
    /\ LET rate == nh[MUTA].fixingrate.targetfixingrate
       IN  \E draws \in DrawSequences(NTargetFixings(rate, outer.nvars), outer.nbinint) :
              LET r == varFixingsMutationOn(outer, probvars, incumbent, rate, draws)
              IN  /\ probvars' = r.vars
                  /\ varbuf' = r.varbuf
                  /\ valbuf' = r.valbuf
                  /\ nfixings' = r.nfixings
                  /\ success' = FixingTest(r.success, r.nfixings, rate, outer.nvars)
                  /\ nh' = [nh EXCEPT ![MUTA].data = Advance(@, r.draws)]
    /\ UNCHANGED <<lifecycle, pc, result, outer, params, usednodes, epsgreedynh, exp3,
                   neighborhoodidx, run, solvelimits, sub, accepted, acceptedbest, leaked,
                   nevents, nsolves, stream, picked, incumbent, twin, nneighborhoods,
                   neighborhoods, outerbounds, objlimit, varmapf, subvars, submitted>>

SpecMutation == InitMutation /\ [][FixMutation]_vars

(***************************************************************************)
(* The objective cutoff of setupSubScip alone, on bounds of the outer      *)
(* solve and values of minimprove drawn from bounded sets.  Reals are      *)
(* exact fractions [num, den] with den > 0; lowerbound.inf stands for      *)
(* minus infinity.                                                         *)
(***************************************************************************)
\* the set-ups of a sub-SCIP in one behaviour
MaxSetups == 1

RECURSIVE GCD(_, _)
GCD(a, b) == IF b = 0 THEN a ELSE GCD(b, a % b)

\* a fraction in lowest terms
RatNorm(a) ==
    LET g == GCD(IF a.num < 0 THEN -a.num ELSE a.num, a.den)
    IN  Rat(a.num \div g, a.den \div g)

RatAdd(a, b) == RatNorm(Rat(a.num * b.den + b.num * a.den, a.den * b.den))
RatSub(a, b) == RatNorm(Rat(a.num * b.den - b.num * a.den, a.den * b.den))
RatMul(a, b) == RatNorm(Rat(a.num * b.num, a.den * b.den))
RatMin(a, b) == IF RatLess(b, a) THEN b ELSE a

\* numerics/sumepsilon at its default, 1e-6
SCIPsumepsilon == Rat(1, 1000000)

\* a variant of the cutoff that is not capped by the upper bound
CutoffNoMin(b, minimprove) ==
    IF SCIPisInfinity(b.upperbound) THEN NoObjlimit
    ELSE LET ub == Rat(b.upperbound.val, 1)
             one == Rat(1, 1)
             cutoff == IF ~b.lowerbound.inf
                       THEN RatAdd(RatMul(RatSub(one, minimprove), ub),
                                   RatMul(minimprove, Rat(b.lowerbound.val, 1)))
                       ELSE IF b.upperbound.val >= 0
                            THEN RatMul(RatSub(one, minimprove), ub)
                            ELSE RatMul(RatAdd(one, minimprove), ub)
         IN  [set |-> TRUE, val |-> cutoff]

\* the objective limit setupSubScip gives a new sub-SCIP
CutoffOf(b, minimprove) ==
    IF SCIPisInfinity(b.upperbound) THEN NoObjlimit
    ELSE LET ub == Rat(b.upperbound.val, 1)
             one == Rat(1, 1)
             upperbound == RatSub(ub, SCIPsumepsilon)
             cutoff == IF ~b.lowerbound.inf
                       THEN RatAdd(RatMul(RatSub(one, minimprove), ub),
                                   RatMul(minimprove, Rat(b.lowerbound.val, 1)))
                       ELSE IF b.upperbound.val >= 0
                            THEN RatMul(RatSub(one, minimprove), ub)
                            ELSE RatMul(RatAdd(one, minimprove), ub)
         IN  [set |-> TRUE, val |-> RatMin(upperbound, cutoff)]

\* bounds of the outer solve: none, or a lower bound at most the upper bound
CutoffBounds ==
    {b \in [upperbound : {Inf} \cup {Fin(u) : u \in {-10, -1, 0, 1, 10}},
            lowerbound : {[inf |-> TRUE, val |-> 0]}
                             \cup {Fin(l) : l \in {-20, -10, -1, 0, 2, 10}}] :
        (~b.upperbound.inf /\ ~b.lowerbound.inf) => b.lowerbound.val <= b.upperbound.val}

\* heuristics/lns/minimprove lies in [0, 1]
MinImproves == {Rat(0, 1), Rat(1, 50), Rat(1, 10), Rat(1, 2), Rat(1, 1)}

InitCutoff ==
    /\ lifecycle = "initialized"
    /\ pc = "idle"
    /\ result = "none"
    /\ outer = OuterOf(CHOOSE r \in Resources : SCIPisInfinity(r.timelimit),
                       [nvars |-> NVars, nbinint |-> NBinInt])
    /\ \E mi \in MinImproves : params = [DefaultParams EXCEPT !.minimprove = mi]
    /\ usednodes = 0
    /\ nh = [i \in Neighborhoods |->
                [neighborhoodInit(i, lnsIncludeNeighborhood(0)) EXCEPT
                    !.fixingrate = fixingRateReset,
                    !.stats = neighborhoodStatsReset(@)]]
    /\ epsgreedynh = epsGreedyCreate(DEFAULT_INITSEED, Rat(0, 1))
    /\ exp3 = expThreeCreate(NNEIGHBORHOODS)
    /\ neighborhoodidx = 0
    /\ nfixings = 0
    /\ success = FALSE
    /\ run = TRUE
    /\ solvelimits = NoLimits
    /\ sub = NoSub
    /\ accepted = 0
    /\ acceptedbest = 0
    /\ leaked = 0
    /\ ncallsmade = 0
    /\ nevents = 0
    /\ nsolves = 1
    /\ stream = <<>>
    /\ picked = <<>>
    /\ probvars = <<>>
    /\ varbuf = <<>>
    /\ valbuf = <<>>
    /\ twin = NoTwin
    /\ incumbent = <<>>
    /\ neighborhoods = includeNeighborhoods.neighborhoods
    /\ nneighborhoods = includeNeighborhoods.nneighborhoods
    /\ outerbounds \in CutoffBounds
    /\ objlimit = NoObjlimit
    /\ varmapf = <<>>
    /\ subvars = <<>>
    /\ submitted = <<>>

\* setupSubScip on a new sub-SCIP: its objective limit
setupSubScip ==
    /\ pc = "idle"
    /\ ncallsmade < MaxSetups
    /\ ncallsmade' = ncallsmade + 1
    /\ objlimit' = CutoffOf(outerbounds, params.minimprove)
    /\ UNCHANGED <<lifecycle, pc, result, outer, params, usednodes, epsgreedynh, exp3, nh,
                   Locals, sub, accepted, acceptedbest, leaked, nevents, nsolves, stream,
                   picked, probvars, varbuf, valbuf, twin, nneighborhoods, incumbent,
                   neighborhoods, outerbounds, varmapf, subvars, submitted>>

SpecCutoff == InitCutoff /\ [][setupSubScip]_vars

(***************************************************************************)
(* The nested solve alone: heurExecLns stands at its call of SCIPsolve,    *)
(* with the variables of the problem, their images in the sub-SCIP and a   *)
(* node limit drawn from bounded sets; the events follow as in Spec.       *)
(***************************************************************************)
\* the variables of the problem
EventVars == 3

\* the node limits of the sub-solve: none, one node, two steps of the
\* nested solve, the offset
EventNodeLimits == {0, 1, 2 * NodeChunk, DEFAULT_NODESOFFSET}

\* the calls counted by the outer solve before this one
EventCalls == {0, 1}

\* the array of the problem's variables: in order, or with its first two
\* entries exchanged
EventArrays ==
    {[k \in 1 .. EventVars |-> k],
     [k \in 1 .. EventVars |-> IF k = 1 THEN 2 ELSE IF k = 2 THEN 1 ELSE k]}

\* the images SCIPcopyLargeNeighborhoodSearch gives the variables in the
\* sub-SCIP: in order, or rotated
EventMaps ==
    {[v \in 1 .. EventVars |-> 10 + v],
     [v \in 1 .. EventVars |-> 10 + ((v + 1) % EventVars) + 1]}

InitEvents ==
    /\ lifecycle = "initialized"
    /\ pc = "solving"
    /\ result = ResultOnRun
    /\ \E nc \in EventCalls :
          outer = [OuterOf(CHOOSE r \in Resources : SCIPisInfinity(r.timelimit),
                           [nvars |-> EventVars, nbinint |-> EventVars - 1])
                      EXCEPT !.ncalls = nc]
    /\ params = [DefaultParams EXCEPT !.minnodes = 0]
    /\ \E nl \in EventNodeLimits :
          /\ usednodes = DEFAULT_NODESOFFSET - CALLPENALTY * outer.ncalls - nl
          /\ usednodes >= 0
    /\ neighborhoodidx \in {RENS, RINS}
    /\ nfixings = EventVars - 1
    /\ success = TRUE
    /\ run = RunAgainOf(outer, params, usednodes, TRUE)
    /\ solvelimits = determineLimits(outer, params, usednodes)
    /\ nh = [i \in Neighborhoods |->
                [neighborhoodInit(i, lnsIncludeNeighborhood(0)) EXCEPT
                    !.fixingrate = fixingRateReset,
                    !.stats = IF i = neighborhoodidx
                              THEN initNeighborhoodStatsRun(
                                       [neighborhoodStatsReset(@) EXCEPT
                                           !.usednodes = usednodes,
                                           !.nruns = IF usednodes > 0 THEN 1 ELSE 0,
                                           !.totalnfixings = nfixings],
                                       outer)
                              ELSE neighborhoodStatsReset(@)]]
    /\ epsgreedynh = epsGreedyCreate(DEFAULT_INITSEED, Rat(0, 1))
    /\ exp3 = expThreeCreate(NNEIGHBORHOODS)
    /\ sub = [NoSub EXCEPT !.alloc = TRUE, !.nodelimit = solvelimits.nodelimit,
                         !.eventhdlr = TRUE]
    /\ accepted = 0
    /\ acceptedbest = 0
    /\ leaked = 0
    /\ ncallsmade = 1
    /\ nevents = 0
    /\ nsolves = 1
    /\ stream = <<>>
    /\ picked = <<>>
    /\ probvars \in EventArrays
    /\ varbuf = <<>>
    /\ valbuf = <<>>
    /\ twin = NoTwin
    /\ incumbent = <<>>
    /\ neighborhoods = includeNeighborhoods.neighborhoods
    /\ nneighborhoods = includeNeighborhoods.nneighborhoods
    /\ outerbounds = NoBounds
    /\ objlimit = NoObjlimit
    /\ varmapf \in EventMaps
    /\ subvars = SubVarsOf(probvars, varmapf)
    /\ submitted = <<>>

NextEvents ==
    \/ SubNodes
    \/ LPSolved
    \/ BestSolFound
    \/ heurExecLnsFinish
    \/ SolveAborts

SpecEvents == InitEvents /\ [][NextEvents]_vars

(***************************************************************************)
(* The Exp.3 selector alone: expThreeSelectAction, expThreeUpdate and      *)
(* expThreeReset applied in any order to a selector made by                *)
(* expThreeCreate, over a generator whose stream of words is fixed by the  *)
(* seed.  picked holds the actions selected since the last reset,          *)
(* twin.picked those selected between creation and the first reset,        *)
(* nsolves counts the resets and nevents the operations.                   *)
(***************************************************************************)
MaxExp3Ops == 5

\* gains observed for an action (expThreeUpdate asserts gain != NULL)
Exp3Gains == {Rat(1, 2), Rat(1, 1)}

\* psum after k passes of the loop of expThreeSelectAction
RECURSIVE PSum(_, _)
PSum(e, k) == IF k = 0 THEN Rat(0, 1) ELSE RatAdd(PSum(e, k - 1), e.probabilities[k])

\* the loop of expThreeSelectAction: i runs from 0, psum is the sum of the
\* probabilities before i; the index at which rand <= psum, or nactions
RECURSIVE expThreeSelectLoop(_, _, _, _)
expThreeSelectLoop(e, rand, i, psum) ==
    IF i >= e.nactions THEN i
    ELSE LET ps == RatAdd(psum, e.probabilities[i + 1])
         IN  IF RatLeq(rand, ps) THEN i ELSE expThreeSelectLoop(e, rand, i + 1, ps)

\* a variant of expThreeSelectAction that does not count the draw
expThreeSelectActionNoCount(e, w) ==
    [action |-> expThreeSelectLoop(e, SCIPrandomGetReal(w), 0, Rat(0, 1)),
     exp3 |-> [e EXCEPT !.rng = Advance(@, 1)]]

\* expThreeSelectAction with the word w of its generator
expThreeSelectAction(e, w) ==
    [action |-> expThreeSelectLoop(e, SCIPrandomGetReal(w), 0, Rat(0, 1)),
     exp3 |-> [e EXCEPT !.ndraws = @ + 1, !.rng = Advance(@, 1)]]

\* expThreeUpdate adds the gain to the cumulative gain of action i; eta and
\* factor are computed and not used
expThreeUpdate(e, gain, i) ==
    [e EXCEPT !.cumulativegain[i + 1] = RatAdd(@, gain)]

InitExp3 ==
    /\ lifecycle = "initialized"
    /\ pc = "idle"
    /\ result = "none"
    /\ outer = OuterOf(CHOOSE r \in Resources : SCIPisInfinity(r.timelimit),
                       [nvars |-> NVars, nbinint |-> NBinInt])
    /\ params = DefaultParams
    /\ usednodes = 0
    /\ nh = [i \in Neighborhoods |->
                [neighborhoodInit(i, lnsIncludeNeighborhood(0)) EXCEPT
                    !.fixingrate = fixingRateReset]]
    /\ epsgreedynh = NoEpsGreedy
    /\ \E n \in 1 .. NNEIGHBORHOODS : exp3 = expThreeCreate(n)
    /\ neighborhoodidx = 0
    /\ nfixings = 0
    /\ success = FALSE
    /\ run = TRUE
    /\ solvelimits = NoLimits
    /\ sub = NoSub
    /\ accepted = 0
    /\ acceptedbest = 0
    /\ leaked = 0
    /\ ncallsmade = 0
    /\ nevents = 0
    /\ nsolves = 0
    /\ stream \in [1 .. MaxDraws -> RandWords]
    /\ picked = <<>>
    /\ probvars = <<>>
    /\ varbuf = <<>>
    /\ valbuf = <<>>
    /\ twin = NoTwin
    /\ nneighborhoods = includeNeighborhoods.nneighborhoods
    /\ incumbent = <<>>
    /\ neighborhoods = includeNeighborhoods.neighborhoods
    /\ outerbounds = NoBounds
    /\ objlimit = NoObjlimit
    /\ varmapf = <<>>
    /\ subvars = <<>>
    /\ submitted = <<>>

\* one call of expThreeSelectAction
Exp3Select ==
    /\ nevents < MaxExp3Ops
    /\ \E w \in NextWords(exp3.rng) :
          LET s == expThreeSelectAction(exp3, w)
          IN  /\ exp3' = s.exp3
              /\ picked' = Append(picked, s.action)
              /\ twin' = IF nsolves = 0
                         THEN [twin EXCEPT !.picked = Append(@, s.action)]
                         ELSE twin
    /\ nevents' = nevents + 1
    /\ UNCHANGED <<lifecycle, pc, result, outer, params, usednodes, epsgreedynh, nh,
                   neighborhoodidx, nfixings, success, run, solvelimits, sub, accepted,
                   acceptedbest, leaked, ncallsmade, nsolves, stream, probvars, varbuf,
                   valbuf, nneighborhoods, incumbent, neighborhoods, outerbounds,
                   objlimit, varmapf, subvars, submitted>>

\* one call of expThreeUpdate for the last selected action (it asserts
\* ndraws > 0 and 0 <= i < nactions)
Exp3Update ==
    /\ nevents < MaxExp3Ops
    /\ exp3.ndraws > 0
    /\ picked # <<>>
    /\ picked[Len(picked)] \in 0 .. (exp3.nactions - 1)
    /\ \E gain \in Exp3Gains :
          exp3' = expThreeUpdate(exp3, gain, picked[Len(picked)])
    /\ nevents' = nevents + 1
    /\ UNCHANGED <<lifecycle, pc, result, outer, params, usednodes, epsgreedynh, nh,
                   neighborhoodidx, nfixings, success, run, solvelimits, sub, accepted,
                   acceptedbest, leaked, ncallsmade, nsolves, stream, picked, Rest,
                   subvars, submitted>>

\* one call of expThreeReset
Exp3Reset ==
    /\ nevents < MaxExp3Ops
    /\ exp3' = expThreeReset(exp3)
    /\ picked' = <<>>
    /\ nsolves' = nsolves + 1
    /\ nevents' = nevents + 1
    /\ UNCHANGED <<lifecycle, pc, result, outer, params, usednodes, epsgreedynh, nh,
                   neighborhoodidx, nfixings, success, run, solvelimits, sub, accepted,
                   acceptedbest, leaked, ncallsmade, stream, Rest, subvars, submitted>>

NextExp3 == Exp3Select \/ Exp3Update \/ Exp3Reset

SpecExp3 == InitExp3 /\ [][NextExp3]_vars

(***************************************************************************)
(* varFixingsRens and varFixingsRins on the arrays: the outer solve gives  *)
(* the state of its LP (haslp, lpopt), the LP solution lpsol, the          *)
(* incumbent (<<>> for none) and its origin (incorig); the buffers varbuf  *)
(* and valbuf are arrays of nvars entries that hold what the allocation    *)
(* left in them.  neighborhoodFixVariables is called for the neighborhood  *)
(* neighborhoodidx.                                                        *)
(***************************************************************************)
SCIPisIntegral(v) == v.num % v.den = 0
SCIPisEQ(a, b) == a.num * b.den = b.num * a.den

\* the loop of varFixingsRens from its index i on
RECURSIVE varFixingsRensLoop(_, _, _, _, _, _, _)
varFixingsRensLoop(arr, lpsol, vbuf, valb, nfix, i, nbinint) ==
    IF i >= nbinint THEN [varbuf |-> vbuf, valbuf |-> valb, nfixings |-> nfix]
    ELSE LET var == arr[i + 1]
             lpsolval == lpsol[var]
         IN  IF SCIPisIntegral(lpsolval)
             THEN varFixingsRensLoop(arr, lpsol,
                                     [vbuf EXCEPT ![nfix + 1] = var],
                                     [valb EXCEPT ![nfix + 1] = lpsolval],
                                     nfix + 1, i + 1, nbinint)
             ELSE varFixingsRensLoop(arr, lpsol, vbuf, valb, nfix, i + 1, nbinint)

\* varFixingsRens, entered with the buffers, *nfixings and *success of its
\* caller
varFixingsRensOn(o, arr, sol, vbuf, valb, nfix, succ) ==
    IF ~o.haslp \/ ~o.lpopt \/ o.nbinint = 0
    THEN [varbuf |-> vbuf, valbuf |-> valb, nfixings |-> nfix, success |-> succ]
    ELSE LET r == varFixingsRensLoop(arr, o.lpsol, vbuf, valb, nfix, 0, o.nbinint)
         IN  [varbuf |-> r.varbuf, valbuf |-> r.valbuf, nfixings |-> r.nfixings,
              success |-> TRUE]

\* the loop of varFixingsRins from its index i on
RECURSIVE varFixingsRinsLoop(_, _, _, _, _, _, _, _)
varFixingsRinsLoop(arr, lpsol, sol, vbuf, valb, nfix, i, nbinint) ==
    IF i >= nbinint THEN [varbuf |-> vbuf, valbuf |-> valb, nfixings |-> nfix]
    ELSE LET var == arr[i + 1]
             lpsolval == lpsol[var]
             incumbentsolval == SCIPgetSolVal(sol, var)
         IN  IF SCIPisEQ(lpsolval, incumbentsolval)
             THEN varFixingsRinsLoop(arr, lpsol, sol,
                                     [vbuf EXCEPT ![nfix + 1] = var],
                                     [valb EXCEPT ![nfix + 1] = incumbentsolval],
                                     nfix + 1, i + 1, nbinint)
             ELSE varFixingsRinsLoop(arr, lpsol, sol, vbuf, valb, nfix, i + 1, nbinint)

\* a variant of varFixingsRins without the test of the incumbent's origin
varFixingsRinsOnAnyOrigin(o, arr, sol, vbuf, valb, nfix, succ) ==
    IF ~o.haslp \/ ~o.lpopt \/ sol = <<>> \/ o.nbinint = 0
    THEN [varbuf |-> vbuf, valbuf |-> valb, nfixings |-> nfix, success |-> succ]
    ELSE LET r == varFixingsRinsLoop(arr, o.lpsol, sol, vbuf, valb, nfix, 0, o.nbinint)
         IN  [varbuf |-> r.varbuf, valbuf |-> r.valbuf, nfixings |-> r.nfixings,
              success |-> TRUE]

\* varFixingsRins, entered with the buffers, *nfixings and *success of its
\* caller
varFixingsRinsOn(o, arr, sol, vbuf, valb, nfix, succ) ==
    IF ~o.haslp \/ ~o.lpopt \/ sol = <<>> \/ o.incorig \/ o.nbinint = 0
    THEN [varbuf |-> vbuf, valbuf |-> valb, nfixings |-> nfix, success |-> succ]
    ELSE LET r == varFixingsRinsLoop(arr, o.lpsol, sol, vbuf, valb, nfix, 0, o.nbinint)
         IN  [varbuf |-> r.varbuf, valbuf |-> r.valbuf, nfixings |-> r.nfixings,
              success |-> TRUE]

\* neighborhoodFixVariables for rens or rins: *nfixings = 0, *success =
\* FALSE, the callback, the test of the fixing rate
neighborhoodFixVariablesOn(i, o, arr, sol, vbuf, valb, rate) ==
    LET r == IF i = RENS THEN varFixingsRensOn(o, arr, sol, vbuf, valb, 0, FALSE)
             ELSE varFixingsRinsOn(o, arr, sol, vbuf, valb, 0, FALSE)
    IN  [r EXCEPT !.success = FixingTest(r.success, r.nfixings, rate, o.nvars)]

\* problems of 3 variables with 2 discrete ones, and of 2 continuous ones
FixingProblems == {[nvars |-> 3, nbinint |-> 2], [nvars |-> 2, nbinint |-> 0]}

\* values of a discrete variable in an LP solution
LPValues == {Rat(0, 1), Rat(1, 2), Rat(1, 1)}

\* LP solutions of a problem: a continuous variable has the value 1/2
LPSolutions(prob) ==
    {s \in [1 .. prob.nvars -> LPValues] :
        \A v \in 1 .. prob.nvars : v > prob.nbinint => s[v] = Rat(1, 2)}

\* incumbents of a problem: none, or integral on the discrete variables
Incumbents(prob) ==
    {<<>>} \cup
    {s \in [1 .. prob.nvars -> {Rat(0, 1), Rat(1, 2), Rat(1, 1)}] :
        \A v \in 1 .. prob.nvars :
            IF v > prob.nbinint THEN s[v] = Rat(1, 2) ELSE SCIPisIntegral(s[v])}

\* the arrays SCIPgetVarsData can give: the discrete variables come first
FixingArrays(prob) ==
    {[k \in 1 .. prob.nvars |-> k]} \cup
    (IF prob.nbinint >= 2
     THEN {[k \in 1 .. prob.nvars |-> IF k = 1 THEN 2 ELSE IF k = 2 THEN 1 ELSE k]}
     ELSE {})

InitFixings ==
    /\ lifecycle = "initialized"
    /\ pc = "idle"
    /\ result = "none"
    /\ \E prob \in FixingProblems :
          /\ \E lp \in {<<FALSE, FALSE>>, <<TRUE, FALSE>>, <<TRUE, TRUE>>} :
             \E s \in LPSolutions(prob) :
             \E orig \in BOOLEAN :
                outer = OuterOf(CHOOSE r \in Resources : SCIPisInfinity(r.timelimit), prob)
                           @@ [haslp |-> lp[1], lpopt |-> lp[2], lpsol |-> s,
                               incorig |-> orig]
          /\ probvars \in FixingArrays(prob)
          /\ incumbent \in Incumbents(prob)
          /\ \E g \in Garbage :
                /\ varbuf = [k \in 1 .. prob.nvars |-> g]
                /\ valbuf = [k \in 1 .. prob.nvars |-> Rat(g, 1)]
    /\ (outer.incorig => incumbent # <<>>)
    /\ params = DefaultParams
    /\ usednodes = 0
    /\ nh = [i \in Neighborhoods |->
                [neighborhoodInit(i, lnsIncludeNeighborhood(0)) EXCEPT
                    !.fixingrate = fixingRateReset,
                    !.stats = neighborhoodStatsReset(@)]]
    /\ epsgreedynh = epsGreedyCreate(DEFAULT_INITSEED, Rat(0, 1))
    /\ exp3 = expThreeCreate(NNEIGHBORHOODS)
    /\ neighborhoodidx \in {RENS, RINS}
    /\ nfixings = 0
    /\ success = FALSE
    /\ run = TRUE
    /\ solvelimits = NoLimits
    /\ sub = NoSub
    /\ accepted = 0
    /\ acceptedbest = 0
    /\ leaked = 0
    /\ ncallsmade = 0
    /\ nevents = 0
    /\ nsolves = 1
    /\ stream = <<>>
    /\ picked = <<>>
    /\ twin = NoTwin
    /\ neighborhoods = includeNeighborhoods.neighborhoods
    /\ outerbounds = NoBounds
    /\ objlimit = NoObjlimit
    /\ varmapf = <<>>
    /\ subvars = <<>>
    /\ submitted = <<>>
    /\ nneighborhoods = includeNeighborhoods.nneighborhoods

\* neighborhoodFixVariables for the rens or the rins neighborhood
FixRelaxation ==
    /\ pc = "idle"
    /\ ncallsmade < MaxFixCalls
    /\ ncallsmade' = ncallsmade + 1
    /\ LET r == neighborhoodFixVariablesOn(neighborhoodidx, outer, probvars, incumbent,
                                           varbuf, valbuf,
                                           nh[neighborhoodidx].fixingrate.targetfixingrate)
       IN  /\ varbuf' = r.varbuf
           /\ valbuf' = r.valbuf
           /\ nfixings' = r.nfixings
           /\ success' = r.success
    /\ UNCHANGED <<lifecycle, pc, result, outer, params, usednodes, epsgreedynh, exp3, nh,
                   neighborhoodidx, run, solvelimits, sub, accepted, acceptedbest, leaked,
                   nevents, nsolves, stream, picked, probvars, incumbent, twin,
                   nneighborhoods, neighborhoods, outerbounds, objlimit, varmapf, subvars,
                   submitted>>

SpecFixings == InitFixings /\ [][FixRelaxation]_vars

(***************************************************************************)
(* One sub-solve of heurExecLns step by step, from the successful fixings  *)
(* (pc = "fixed": the three buffers are allocated, varbuf and valbuf hold  *)
(* the fixings, subvars what the allocation left) to the return:           *)
(*   "copied"      SCIPcreate, SCIPhashmapCreate, the copy                 *)
(*   "built"       subvars stored, SCIPhashmapFree                         *)
(*   "configured"  setupSubScip: limits and cutoff                         *)
(*   "solving"     event data, event handler, transform, SCIPcatchEvent,   *)
(*                 SCIPsolve entered                                       *)
(*   "solved"      SCIPsolve has returned SCIP_OKAY                        *)
(*   "updated"     updateNeighborhoodStats, usednodes                      *)
(*   "idle"        SCIPfree, the buffers freed, return                     *)
(* A step wrapped in SCIP_CALL can return an error instead ("error").      *)
(***************************************************************************)
\* a variant of the order of the steps that enters the solve right after
\* the sub-SCIP is built
SessionStepAfterNoSetup(p) ==
    CASE p = "fixed" -> "copied"
      [] p = "copied" -> "built"
      [] p = "built" -> "solving"
      [] p = "configured" -> "solving"
      [] p = "solving" -> "solved"
      [] p = "solved" -> "updated"
      [] p = "updated" -> "idle"

\* the step that follows a step in the body of heurExecLns
SessionStepAfter(p) ==
    CASE p = "fixed" -> "copied"
      [] p = "copied" -> "built"
      [] p = "built" -> "configured"
      [] p = "configured" -> "solving"
      [] p = "solving" -> "solved"
      [] p = "solved" -> "updated"
      [] p = "updated" -> "idle"

\* bounds of the outer solve: none, and finite ones
SessionBounds == {NoBounds, [upperbound |-> Fin(10), lowerbound |-> Fin(2)]}

InitSession ==
    /\ lifecycle = "initialized"
    /\ pc = "fixed"
    /\ result = ResultOnRun
    /\ outer = OuterOf(CHOOSE r \in Resources : SCIPisInfinity(r.timelimit),
                       [nvars |-> EventVars, nbinint |-> EventVars - 1])
    /\ params = [DefaultParams EXCEPT !.minnodes = 0]
    /\ \E nl \in EventNodeLimits : usednodes = DEFAULT_NODESOFFSET - nl
    /\ neighborhoodidx \in {RENS, RINS}
    /\ nfixings = EventVars - 1
    /\ success = TRUE
    /\ run = RunAgainOf(outer, params, usednodes, TRUE)
    /\ solvelimits = determineLimits(outer, params, usednodes)
    /\ nh = [i \in Neighborhoods |->
                [neighborhoodInit(i, lnsIncludeNeighborhood(0)) EXCEPT
                    !.fixingrate = fixingRateReset,
                    !.stats = IF i = neighborhoodidx
                              THEN initNeighborhoodStatsRun(
                                       [neighborhoodStatsReset(@) EXCEPT
                                           !.usednodes = usednodes,
                                           !.nruns = IF usednodes > 0 THEN 1 ELSE 0,
                                           !.totalnfixings = nfixings],
                                       outer)
                              ELSE neighborhoodStatsReset(@)]]
    /\ epsgreedynh = epsGreedyCreate(DEFAULT_INITSEED, Rat(0, 1))
    /\ exp3 = expThreeCreate(NNEIGHBORHOODS)
    /\ sub = NoSub
    /\ accepted = 0
    /\ acceptedbest = 0
    /\ leaked = 0
    /\ ncallsmade = 1
    /\ nevents = 0
    /\ nsolves = 1
    /\ stream = <<>>
    /\ picked = <<>>
    /\ probvars \in EventArrays
    /\ varbuf = [k \in 1 .. EventVars |-> IF k <= nfixings THEN probvars[k] ELSE 0]
    /\ valbuf = [k \in 1 .. EventVars |-> Rat(0, 1)]
    /\ \E g \in Garbage : subvars = [k \in 1 .. EventVars |-> g]
    /\ twin = NoTwin
    /\ incumbent = <<>>
    /\ neighborhoods = includeNeighborhoods.neighborhoods
    /\ nneighborhoods = includeNeighborhoods.nneighborhoods
    /\ outerbounds \in SessionBounds
    /\ objlimit = NoObjlimit
    /\ varmapf = <<>>
    /\ submitted = <<>>

\* what a step of the session leaves alone, besides pc
SessionFrame ==
    UNCHANGED <<lifecycle, result, params, epsgreedynh, exp3, neighborhoodidx, nfixings,
                success, run, solvelimits, accepted, acceptedbest, leaked, ncallsmade,
                nevents, nsolves, stream, picked, probvars, twin, nneighborhoods,
                incumbent, neighborhoods, outerbounds, submitted>>

\* SCIPcreate, SCIPhashmapCreate, SCIPcopyLargeNeighborhoodSearch
SessionCopy ==
    /\ pc = "fixed"
    /\ pc' = SessionStepAfter(pc)
    /\ sub' = [NoSub EXCEPT !.alloc = TRUE]
    /\ varmapf' \in EventMaps
    /\ UNCHANGED <<outer, usednodes, nh, varbuf, valbuf, subvars, objlimit>>
    /\ SessionFrame

\* the images of the variables are stored in subvars, SCIPhashmapFree
SessionStoreSubvars ==
    /\ pc = "copied"
    /\ pc' = SessionStepAfter(pc)
    /\ subvars' = SubVarsOf(probvars, varmapf)
    /\ varmapf' = <<>>
    /\ UNCHANGED <<outer, usednodes, nh, sub, varbuf, valbuf, objlimit>>
    /\ SessionFrame

\* setupSubScip: the limits of determineLimits and the cutoff
SessionConfigure ==
    /\ pc = "built"
    /\ SessionStepAfter(pc) = "configured"
    /\ pc' = "configured"
    /\ sub' = [sub EXCEPT !.nodelimit = solvelimits.nodelimit]
    /\ objlimit' = CutoffOf(outerbounds, params.minimprove)
    /\ UNCHANGED <<outer, usednodes, nh, varbuf, valbuf, subvars, varmapf>>
    /\ SessionFrame

\* the event data, SCIPincludeEventhdlrBasic, SCIPtransformProb,
\* SCIPcatchEvent; SCIPsolve is entered
SessionHooks ==
    /\ pc \in {"built", "configured"}
    /\ SessionStepAfter(pc) = "solving"
    /\ pc' = "solving"
    /\ sub' = [sub EXCEPT !.eventhdlr = TRUE]
    /\ UNCHANGED <<outer, usednodes, nh, varbuf, valbuf, subvars, varmapf, objlimit>>
    /\ SessionFrame

\* SCIPsolve returns SCIP_OKAY
SessionSolved ==
    /\ pc = "solving"
    /\ pc' = SessionStepAfter(pc)
    /\ UNCHANGED <<outer, usednodes, nh, sub, varbuf, valbuf, subvars, varmapf, objlimit>>
    /\ SessionFrame

\* updateNeighborhoodStats and the account of the nodes
SessionUpdate ==
    /\ pc = "solved"
    /\ pc' = SessionStepAfter(pc)
    /\ nh' = [nh EXCEPT ![neighborhoodidx].stats = updateNeighborhoodStats(@, outer, sub)]
    /\ usednodes' = usednodes + sub.nnodes
    /\ UNCHANGED <<outer, sub, varbuf, valbuf, subvars, varmapf, objlimit>>
    /\ SessionFrame

\* SCIPfree, the three SCIPfreeBufferArray, return
SessionTeardown ==
    /\ pc = "updated"
    /\ pc' = SessionStepAfter(pc)
    /\ sub' = NoSub
    /\ subvars' = <<>>
    /\ valbuf' = <<>>
    /\ varbuf' = <<>>
    /\ outer' = SCIPheurExecReturn(outer, result)
    /\ UNCHANGED <<usednodes, nh, varmapf, objlimit>>
    /\ SessionFrame

\* a step wrapped in SCIP_CALL returns an error: the call returns it at once
SessionError ==
    /\ pc \in {"fixed", "copied", "built", "configured"}
    /\ pc' = "error"
    /\ leaked' = leaked + 1
    /\ UNCHANGED <<lifecycle, result, outer, params, usednodes, epsgreedynh, exp3, nh,
                   Locals, sub, accepted, acceptedbest, ncallsmade, nevents, nsolves,
                   stream, picked, Rest, subvars, submitted>>

NextSession ==
    \/ SessionCopy
    \/ SessionStoreSubvars
    \/ SessionConfigure
    \/ SessionHooks
    \/ SubNodes
    \/ LPSolved
    \/ BestSolFound
    \/ SessionSolved
    \/ SolveAborts
    \/ SessionUpdate
    \/ SessionTeardown
    \/ SessionError

SpecSession == InitSession /\ [][NextSession]_vars

(***************************************************************************)
(* Properties of heurExecLns (Spec)                                        *)
(***************************************************************************)

\* C1: a call of heurExecLns made when the budget is not runnable (no time
\* left, memory left within twice the external estimate, or a node limit
\* below minnodes) returns DELAYED and changes nothing: the selectors and
\* their generators, the fixings, the nested solver, the statistics and
\* fixing rates of the neighborhoods and the used-node account stay as
\* they were.
C1_DelayedCallChangesNothing ==
    [][LET timeleft == outer.timelimit.val - outer.time
           memleft == outer.memlimit.val * BytesPerMB - outer.memused - outer.memextern
           nodes == ((params.nodesquot.num * outer.nnodes) \div params.nodesquot.den)
                        + params.nodesoffset - usednodes - 100 * outer.ncalls
           notrunnable == \/ ~outer.timelimit.inf /\ timeleft <= 0
                          \/ ~outer.memlimit.inf /\ memleft <= 2 * outer.memextern
                          \/ nodes < params.minnodes
       IN  (ncallsmade' = ncallsmade + 1 /\ notrunnable) =>
               /\ result' = "DELAYED"
               /\ pc' = pc
               /\ outer'.nsolsfound = outer.nsolsfound
               /\ outer'.nbestsolsfound = outer.nbestsolsfound
               /\ UNCHANGED <<epsgreedynh, exp3, nh, usednodes, sub, leaked,
                              neighborhoodidx, nfixings, success, params>>]_vars

\* a delayed call after a run that has used nodes and filled statistics
C1_Witness ==
    /\ result = "DELAYED"
    /\ pc = "idle"
    /\ ncallsmade >= 2
    /\ usednodes > 0
    /\ \E i \in Neighborhoods : nh[i].stats.nruns > 0

\* C2: the call returns FOUNDSOL whenever a solution of the nested run was
\* accepted by the outer solve, and DIDNOTFIND only when the nested solve
\* ran and none was accepted.
C2_FoundSolWhenAccepted ==
    [][(pc = "solving" /\ pc' = "idle") =>
           /\ (accepted > 0 => result' = "FOUNDSOL")
           /\ (result' = "DIDNOTFIND" => accepted = 0)]_vars

\* C3: after the fixing callback of the selected neighborhood, the call goes
\* on to build the sub-SCIP exactly when the callback succeeded and
\* nfixings >= targetfixingrate * nvars.
C3_FixingRateAcceptance ==
    [][(ncallsmade' = ncallsmade + 1 /\ result' # "DELAYED") =>
           LET rate == nh[neighborhoodidx'].fixingrate.targetfixingrate
           IN  (pc' \in {"solving", "error"}) <=>
                   (success' /\ nfixings' * rate.den >= rate.num * outer.nvars)]_vars

\* C4: when the selected neighborhood declines (its callback fails or gives
\* fewer than targetfixingrate * nvars fixings) the call returns DIDNOTRUN
\* without error, builds no sub-SCIP and leaves the statistics of every
\* neighborhood and the used-node account unchanged.
C4_DeclineChangesNothing ==
    [][(ncallsmade' = ncallsmade + 1 /\ result' # "DELAYED") =>
           LET rate == nh[neighborhoodidx'].fixingrate.targetfixingrate
               declined == \/ ~success'
                           \/ nfixings' * rate.den < rate.num * outer.nvars
           IN  declined =>
                   /\ result' = "DIDNOTRUN"
                   /\ pc' = "idle"
                   /\ sub' = sub
                   /\ leaked' = leaked
                   /\ usednodes' = usednodes
                   /\ \A i \in Neighborhoods : nh'[i].stats = nh[i].stats]_vars

\* C5: a call makes at most one sub-solve attempt: a sub-SCIP is created
\* only at the entry of a call, no call is entered while one is running,
\* and nruns summed over the neighborhoods grows by exactly 1 on the return
\* of a call whose sub-SCIP was solved and by 0 on every other step.
C5_OneSubSolvePerCall ==
    [][(lifecycle = "initialized" /\ lifecycle' = "initialized") =>
           LET sumruns(n) == n[0].stats.nruns + n[1].stats.nruns + n[2].stats.nruns
           IN  /\ (sub'.alloc /\ ~sub.alloc => ncallsmade' = ncallsmade + 1 /\ pc = "idle")
               /\ (leaked' # leaked => ncallsmade' = ncallsmade + 1 /\ leaked' = leaked + 1
                                        /\ ~sub'.alloc)
               /\ (sub.alloc => ncallsmade' = ncallsmade)
               /\ sumruns(nh') = sumruns(nh)
                      + (IF pc = "solving" /\ pc' = "idle" THEN 1 ELSE 0)]_vars

\* two calls of one outer solve have each run their sub-SCIP
C5_Witness ==
    /\ lifecycle = "initialized"
    /\ pc = "idle"
    /\ ncallsmade = 2
    /\ nh[0].stats.nruns + nh[1].stats.nruns + nh[2].stats.nruns = 2

\* C7: the node limit of a sub-solve is
\*   floor(nodesquot * nnodes) + nodesoffset - usednodes - 100 * ncalls,
\* usednodes is the sum of the nodes of all sub-solves since heurInitLns, and
\* the limit of a sub-solve that runs is >= minnodes >= 0.
C7_NodeLimitFormula ==
    /\ lifecycle = "initialized" =>
           usednodes = nh[0].stats.usednodes + nh[1].stats.usednodes
                           + nh[2].stats.usednodes
    /\ pc = "solving" =>
           /\ solvelimits.nodelimit =
                  ((params.nodesquot.num * outer.nnodes) \div params.nodesquot.den)
                      + params.nodesoffset - usednodes - 100 * outer.ncalls
           /\ sub.nodelimit = solvelimits.nodelimit
           /\ solvelimits.nodelimit >= params.minnodes
           /\ params.minnodes >= 0

\* a sub-solve planned after nodes were used and a call was counted
C7_Witness ==
    /\ pc = "solving"
    /\ usednodes > 0
    /\ outer.ncalls > 0
    /\ outer.nnodes > 0
    /\ solvelimits.nodelimit < DEFAULT_NODESOFFSET

(***************************************************************************)
(* Properties of determineLimits (SpecLimits)                              *)
(***************************************************************************)

\* C6: the budget check reports not runnable exactly when the time left is
\* <= 0, or the memory left is <= twice the external memory estimate, or the
\* node limit is < minnodes, the time and memory left being the outer limits
\* minus the time elapsed and the memory used and estimated (infinite limits
\* stay infinite); in every other state it reports runnable.
C6_RunnableExactly ==
    pc = "limits" =>
        LET timeleft == outer.timelimit.val - outer.time
            memleft == outer.memlimit.val * BytesPerMB - outer.memused - outer.memextern
        IN  /\ solvelimits.timelimit =
                   (IF outer.timelimit.inf THEN Inf ELSE Fin(timeleft))
            /\ solvelimits.memorylimit =
                   (IF outer.memlimit.inf THEN Inf ELSE Fin(memleft))
            /\ (~run) <=>
                   \/ ~outer.timelimit.inf /\ timeleft <= 0
                   \/ ~outer.memlimit.inf /\ memleft <= 2 * outer.memextern
                   \/ solvelimits.nodelimit < params.minnodes

\* not runnable for the time alone, at the boundary of no time left
C6_Witness ==
    /\ pc = "limits"
    /\ ~run
    /\ solvelimits.timelimit = Fin(0)
    /\ SCIPisInfinity(solvelimits.memorylimit)
    /\ solvelimits.nodelimit >= params.minnodes

\* C8: with the outer state (nodes, used nodes, calls) fixed, a larger
\* nodesquot or nodesoffset never gives a smaller node limit, and never
\* turns a runnable budget into one that is not.
C8_BudgetMonotone ==
    pc = "limits" =>
        \A p2 \in LimitParams :
            (/\ p2.minnodes = params.minnodes
             /\ RatLeq(params.nodesquot, p2.nodesquot)
             /\ params.nodesoffset <= p2.nodesoffset) =>
                /\ solvelimits.nodelimit <= NodeLimitOf(outer, p2, usednodes)
                /\ (run => RunAgainOf(outer, p2, usednodes, TRUE))

\* a budget that is not runnable and becomes runnable under a larger offset
C8_Witness ==
    /\ pc = "limits"
    /\ ~run
    /\ outer.nnodes > 0
    /\ params.nodesquot.num > 0
    /\ \E p2 \in LimitParams :
          /\ p2.minnodes = params.minnodes
          /\ p2.nodesquot = params.nodesquot
          /\ params.nodesoffset < p2.nodesoffset
          /\ RunAgainOf(outer, p2, usednodes, TRUE)

(***************************************************************************)
(* Properties of epsGreedySelect (SpecEps)                                 *)
(***************************************************************************)

\* C9: with eps = 0 every selection gives the neighborhood of maximal
\* reward, the lowest index among those of equal reward, whatever the
\* generator draws.
C9_EpsZeroIsGreedy ==
    (epsgreedynh.eps.num = 0 /\ nneighborhoods > 0) =>
        \A k \in 1 .. Len(picked) :
            \A j \in 0 .. (nneighborhoods - 1) :
                /\ (j < picked[k] =>
                        RatLess(epsRewardLns(nh, j), epsRewardLns(nh, picked[k])))
                /\ (j > picked[k] =>
                        RatLeq(epsRewardLns(nh, j), epsRewardLns(nh, picked[k])))

\* C10: with eps = 1 the indices given by repeated selections are the
\* integers drawn one after the other from the seeded generator over
\* 0 .. nchoices - 1, whatever the rewards are.
C10_EpsOneIsUniformDraws ==
    (epsgreedynh.eps.num = epsgreedynh.eps.den /\ nneighborhoods > 0) =>
        \A k \in 1 .. Len(picked) :
            picked[k] = SCIPrandomGetInt(stream[k], 0, nneighborhoods - 1)

(***************************************************************************)
(* Properties of two runs of the selector (SpecTwin)                       *)
(***************************************************************************)

\* C11: two runs of the selector that start from the same seed and make the
\* same calls against the same statistics give the same sequence of
\* neighborhoods, every field that decides the choice having a defined
\* value after epsGreedyCreate.
C11_SameSeedSameChoices ==
    picked = twin.picked

(***************************************************************************)
(* Properties of epsGreedySelect over the number of choices (SpecEps)      *)
(***************************************************************************)

\* C12: epsGreedySelect gives -1 exactly when there is no choice, and an
\* index of 0 .. nchoices - 1 otherwise; with the neighborhoods that
\* includeNeighborhoods registers the index is one of a registered
\* neighborhood.
C12_SelectedIndexInRange ==
    \A k \in 1 .. Len(picked) :
        /\ (picked[k] = -1) <=> (nneighborhoods = 0)
        /\ (nneighborhoods > 0) => picked[k] \in 0 .. (nneighborhoods - 1)
        /\ (nneighborhoods = NNEIGHBORHOODS) =>
               (NNEIGHBORHOODS > 0 /\ picked[k] \in DOMAIN nh)

\* selections of a selector without choices
C12_Witness ==
    /\ nneighborhoods = 0
    /\ Len(picked) >= 2
    /\ picked[1] = -1

(***************************************************************************)
(* Properties of the statistics and the fixing rates (Spec)                *)
(***************************************************************************)

\* C13: the update of the statistics after a run adds 1 to nruns of the
\* neighborhood, and to its nrunsbestsol it adds DEFAULT_BESTSOLWEIGHT if a
\* solution of the nested solve became the best of the outer solve, 1 if
\* one was accepted without becoming the best, and 0 otherwise (solutions
\* that the outer solve rejects count for nothing).
C13_BestSolWeightOnOuterBest ==
    [][(pc = "solving" /\ pc' = "idle") =>
           LET old == nh[neighborhoodidx].stats
               new == nh'[neighborhoodidx].stats
           IN  /\ new.nruns = old.nruns + 1
               /\ new.nrunsbestsol = old.nrunsbestsol +
                      (IF acceptedbest > 0 THEN 3 ELSE IF accepted > 0 THEN 1 ELSE 0)]_vars

\* C14: a solution of the nested solve that the outer solve rejects stops
\* nothing and counts for nothing: the nested solve goes on, the statistics
\* and the counters of the outer solve stay as they are; a run changes the
\* statistics of the selected neighborhood only, and between calls nsolsfound
\* and nbestsolsfound summed over the neighborhoods are the numbers of
\* solutions and of best solutions the outer solve has accepted.
C14_RejectedSolutionNotCounted ==
    [][/\ (pc = "solving" /\ sub'.nsols = sub.nsols + 1 /\ accepted' = accepted) =>
              (pc' = "solving" /\ outer' = outer /\ nh' = nh /\ ~sub'.interrupted)
       /\ (pc = "solving" /\ pc' = "idle") =>
              /\ result' \in {"DIDNOTFIND", "FOUNDSOL"}
              /\ \A j \in Neighborhoods : j # neighborhoodidx => nh'[j] = nh[j]
       /\ (lifecycle' = "initialized" /\ pc' = "idle") =>
              /\ nh'[0].stats.nsolsfound + nh'[1].stats.nsolsfound
                     + nh'[2].stats.nsolsfound = outer'.nsolsfound
              /\ nh'[0].stats.nbestsolsfound + nh'[1].stats.nbestsolsfound
                     + nh'[2].stats.nbestsolsfound = outer'.nbestsolsfound]_vars

\* after two runs, one whose only solution was rejected and one with an
\* accepted solution
C14_Witness ==
    /\ lifecycle = "initialized"
    /\ pc = "idle"
    /\ ncallsmade = 2
    /\ outer.nsolsfound = 1
    /\ \E i \in Neighborhoods :
          nh[i].stats.nruns = 1 /\ nh[i].stats.nrunsbestsol > 0 /\ nh[i].stats.nsolsfound = 0

\* C15: between heurInitLns and heurExitLns every counter of the statistics
\* of a neighborhood is non-negative and never decreases, also while the
\* nested solve runs and after a call that ends with an error.
C15_CountersMonotone ==
    [][(lifecycle = "initialized" /\ lifecycle' = "initialized") =>
           \A i \in Neighborhoods : \A f \in DOMAIN nh[i].stats :
               /\ nh'[i].stats[f] >= nh[i].stats[f]
               /\ nh'[i].stats[f] >= 0]_vars

\* C16: after heurInitLns every counter of the statistics of every
\* neighborhood is zero, and so is usednodes of the heuristic.
C16_CountersZeroAfterInit ==
    (lifecycle = "initialized" /\ ncallsmade = 0) =>
        /\ usednodes = 0
        /\ \A i \in Neighborhoods : \A f \in DOMAIN nh[i].stats : nh[i].stats[f] = 0

\* C17: from heurInitLns on, the fixing rate of every neighborhood is
\* {0, 1/4, 1/2} with 0 <= min <= target <= max <= 1, whatever calls were
\* made.
C17_FixingRateDefaults ==
    (lifecycle \in {"initialized", "exited"}) =>
        \A i \in Neighborhoods :
            LET fr == nh[i].fixingrate
            IN  /\ fr.minfixingrate.num = 0
                /\ fr.targetfixingrate.num * 4 = fr.targetfixingrate.den
                /\ fr.maxfixingrate.num * 2 = fr.maxfixingrate.den
                /\ RatLeq(fr.minfixingrate, fr.targetfixingrate)
                /\ RatLeq(fr.targetfixingrate, fr.maxfixingrate)
                /\ fr.maxfixingrate.num <= fr.maxfixingrate.den
                /\ fr.minfixingrate.den > 0 /\ fr.targetfixingrate.den > 0
                /\ fr.maxfixingrate.den > 0

\* a declined call after a call that ran a sub-SCIP
C17_Witness ==
    /\ lifecycle = "initialized"
    /\ result = "DIDNOTRUN"
    /\ ncallsmade = 2
    /\ \E i \in Neighborhoods : nh[i].stats.nruns = 1

(***************************************************************************)
(* Properties of the mutation neighborhood (SpecMutation)                  *)
(***************************************************************************)

\* C18: with an incumbent and more discrete variables than
\* target = floor(targetfixingrate * nvars) + 1, the mutation callback
\* succeeds with exactly target fixings; without an incumbent, or with no
\* more discrete variables than the target, it declines with 0 fixings.
C18_MutationSucceedsWithTarget ==
    ncallsmade > 0 =>
        LET rate == nh[MUTA].fixingrate.targetfixingrate
            target == ((rate.num * outer.nvars) \div rate.den) + 1
        IN  IF incumbent # <<>> /\ outer.nbinint > target
            THEN success /\ nfixings = target /\ Len(varbuf) = target
            ELSE ~success /\ nfixings = 0

\* C19: whatever is drawn, the variables the mutation callback writes to
\* varbuf are pairwise distinct discrete variables, each with its own value
\* in the incumbent in valbuf.
C19_DistinctVariablesOwnValues ==
    /\ Len(varbuf) = nfixings
    /\ Len(valbuf) = nfixings
    /\ \A i \in 1 .. Len(varbuf) :
          /\ varbuf[i] \in 1 .. outer.nbinint
          /\ valbuf[i] = incumbent[varbuf[i]]
          /\ \A j \in 1 .. Len(varbuf) : i # j => varbuf[i] # varbuf[j]

\* a call on ten discrete variables whose first and last draw swap
C19_Witness ==
    /\ ncallsmade = 1
    /\ outer.nbinint = 10
    /\ Len(varbuf) = 3
    /\ probvars # [k \in 1 .. outer.nvars |-> k]
    /\ varbuf[1] # 1
    /\ varbuf[3] # 3

\* C20: the fixing callback leaves the variable array of the problem
\* (contents and order, the discrete variables first in their order) and
\* the incumbent as they were.
C20_FixingsReadOnly ==
    [][ncallsmade' = ncallsmade + 1 =>
           (probvars' = probvars /\ incumbent' = incumbent /\ outer' = outer)]_vars

(***************************************************************************)
(* Properties of the set-up of the sub-SCIP (Spec, SpecCutoff)             *)
(***************************************************************************)

\* C21: when the nested solve starts, the changesubscip callback and the
\* setupsubscip callback of the selected neighborhood, where it has one,
\* have been called on the sub-SCIP.
C21_NeighborhoodCallbacksCalled ==
    pc = "solving" =>
        LET n == neighborhoods[neighborhoodidx + 1]
        IN  /\ (n.changesubscip # "NULL") => sub.changesubscipcalls = 1
            /\ (n.setupsubscip # "NULL") => sub.setupsubscipcalls = 1

\* C22: with a finite upper bound U of the outer solve, the objective limit
\* of the sub-SCIP is min(U - eps, c), where c = (1 - minimprove) * U +
\* minimprove * L for a finite lower bound L, (1 - minimprove) * U without
\* one and U >= 0, (1 + minimprove) * U without one and U < 0; it is at most
\* U - eps; with an infinite upper bound no objective limit is set.
C22_CutoffFormula ==
    ncallsmade > 0 =>
        IF outerbounds.upperbound.inf THEN ~objlimit.set
        ELSE LET U == outerbounds.upperbound.val
                 L == outerbounds.lowerbound.val
                 p == params.minimprove.num
                 q == params.minimprove.den
                 ueps == RatNorm(Rat(U * 1000000 - 1, 1000000))
                 c == RatNorm(Rat(IF ~outerbounds.lowerbound.inf
                                      THEN (q - p) * U + p * L
                                      ELSE IF U >= 0 THEN (q - p) * U ELSE (q + p) * U,
                                  q))
                 v == objlimit.val
             IN  /\ objlimit.set
                 /\ v = ueps \/ v.num * ueps.den <= ueps.num * v.den
                 /\ v = c \/ v.num * c.den <= c.num * v.den
                 /\ v = ueps \/ v = c

\* U = 10, L = 2, minimprove = 0.1: the objective limit is 9.2
C22_Witness ==
    /\ ncallsmade = 1
    /\ outerbounds = [upperbound |-> Fin(10), lowerbound |-> Fin(2)]
    /\ params.minimprove = Rat(1, 10)
    /\ objlimit.set
    /\ objlimit.val.num * 5 = 46 * objlimit.val.den

\* C23: when a step of a sub-solve attempt fails after the fixings are
\* computed (the creation or the copy of the sub-SCIP, its set-up, the
\* event handler, the nested solve), the sub-SCIP and the buffers of the
\* call are released before the error leaves the call.
C23_ErrorReleasesSession ==
    pc \in {"error", "aborted"} => (leaked = 0 /\ ~sub.alloc)

\* C24: an error of the nested solve never ends the outer solve: the
\* process goes on, with the heuristic making no further sub-solve.
C24_OuterSolveContinuesAfterError == pc # "aborted"

(***************************************************************************)
(* Properties of the life cycle (Spec)                                     *)
(***************************************************************************)

\* C25: the epsilon-greedy selector and the Exp.3 selector exist only
\* between heurInitLns and the matching heurExitLns: neither is allocated
\* after heurExitLns or after heurFreeLns.
C25_NoSelectorAfterExit ==
    lifecycle \in {"exited", "freed"} => (~epsgreedynh.alloc /\ ~exp3.alloc)

C27_RegistryFixed ==
    lifecycle # "freed" =>
        /\ nneighborhoods = 3
        /\ nneighborhoods <= NNEIGHBORHOODS
        /\ Len(neighborhoods) = nneighborhoods
        /\ [k \in 1 .. Len(neighborhoods) |-> neighborhoods[k].name]
               = <<"rens", "rins", "muta">>

\* two outer solves with two calls of the last one have gone by
C27_Witness ==
    /\ lifecycle = "exited"
    /\ nsolves = 2
    /\ ncallsmade = 2
    /\ usednodes > 0
    /\ Len(neighborhoods) = 3

(***************************************************************************)
(* Properties of determineLimits, continued (SpecLimits)                   *)
(***************************************************************************)

\* C28: the node limit of a sub-solve is never above the parameter maxnodes.
C28_NodeLimitWithinMaxnodes ==
    (pc = "limits" /\ run) => solvelimits.nodelimit <= params.maxnodes

(***************************************************************************)
(* Properties of the events of the nested solve (SpecEvents)               *)
(***************************************************************************)

\* C29: while the nested solve runs, it has been asked to stop exactly when
\* the number of its solved LPs is greater than lplimfac times the node
\* limit of this sub-solve: never at or below the product, and at the first
\* LP above it.
C29_InterruptRule ==
    pc = "solving" =>
        /\ sub.nodelimit = solvelimits.nodelimit
        /\ sub.interrupted <=>
               (sub.nlps * params.lplimfac.den > params.lplimfac.num * solvelimits.nodelimit)

\* the first LP of a sub-solve without nodes asks for the stop
C29_Witness ==
    /\ pc = "solving"
    /\ solvelimits.nodelimit = 0
    /\ sub.nlps = 1
    /\ sub.interrupted

\* C30: during the nested solve every new best solution of the sub-SCIP is
\* submitted once to the outer solve, as the solution that gives each
\* variable of the problem the value of its image under the variable map;
\* nothing is submitted outside the nested solve, and a step of the nested
\* solve changes the outer solve only with a submission.
C30_HarvestByEvents ==
    [][/\ (sub'.nbestsols = sub.nbestsols + 1) =>
              submitted' = Append(submitted,
                                  [v \in 1 .. outer.nvars |-> sub'.bestsol[varmapf[v]]])
       /\ (Len(submitted') > Len(submitted)) =>
              (pc = "solving" /\ pc' = "solving" /\ sub'.nbestsols = sub.nbestsols + 1)
       /\ (pc = "solving" /\ pc' = "solving") =>
              /\ probvars' = probvars
              /\ incumbent' = incumbent
              /\ (outer' # outer => Len(submitted') = Len(submitted) + 1)
       /\ (pc # "solving") => Len(submitted') = 0]_vars

\* two solutions have been submitted from a permuted array through a map
\* that is not in order, one of them rejected
C30_Witness ==
    /\ pc = "solving"
    /\ Len(submitted) = 2
    /\ submitted[1] # submitted[2]
    /\ probvars[1] = 2
    /\ varmapf[1] # 11
    /\ accepted = 1

(***************************************************************************)
(* Properties of the two branches of epsGreedySelect (SpecEps)             *)
(***************************************************************************)

\* C32: a selection among at least one neighborhood whose draw u is at most
\* eps takes no further draw and gives the lowest index among the
\* neighborhoods of maximal reward; a selection whose draw u is greater
\* than eps gives the integer drawn next over 0 .. nchoices - 1, whatever
\* the rewards are.
C32_BranchesOfSelect ==
    [][(Len(picked') = Len(picked) + 1 /\ nneighborhoods > 0) =>
          LET i == picked'[Len(picked')]
              pos == epsgreedynh.rng.pos
              u == stream[pos + 1]
              eps == epsgreedynh.eps
          IN  IF u * eps.den <= eps.num * RandMax
              THEN /\ epsgreedynh'.rng.pos = pos + 1
                   /\ i \in 0 .. (nneighborhoods - 1)
                   /\ \A j \in 0 .. (nneighborhoods - 1) :
                         /\ (j < i =>
                               nh[j].stats.nrunsbestsol
                                     * Max(1, nh[i].stats.nruns * DEFAULT_BESTSOLWEIGHT)
                                 < nh[i].stats.nrunsbestsol
                                     * Max(1, nh[j].stats.nruns * DEFAULT_BESTSOLWEIGHT))
                         /\ (j > i =>
                               nh[j].stats.nrunsbestsol
                                     * Max(1, nh[i].stats.nruns * DEFAULT_BESTSOLWEIGHT)
                                 <= nh[i].stats.nrunsbestsol
                                     * Max(1, nh[j].stats.nruns * DEFAULT_BESTSOLWEIGHT))
              ELSE /\ epsgreedynh'.rng.pos = pos + 2
                   /\ i = (stream[pos + 2] * nneighborhoods) \div (RandMax + 1)
                   /\ i \in 0 .. (nneighborhoods - 1)]_vars

\* with eps = 1/2: a first draw of 0 gives neighborhood 1, the lower of the
\* two neighborhoods of reward 1, and a second draw of 1 gives the integer
\* drawn next, neighborhood 0 of reward 0
C32_Witness ==
    /\ nneighborhoods = NNEIGHBORHOODS
    /\ epsgreedynh.eps = Rat(1, 2)
    /\ nh[0].stats.nruns = 1 /\ nh[0].stats.nrunsbestsol = 0
    /\ nh[1].stats.nruns = 1 /\ nh[1].stats.nrunsbestsol = 3
    /\ nh[2].stats.nruns = 1 /\ nh[2].stats.nrunsbestsol = 3
    /\ stream[1] = 0 /\ stream[2] = RandMax /\ stream[3] = 0
    /\ Len(picked) >= 2 /\ picked[1] = 1 /\ picked[2] = 0

(***************************************************************************)
(* Properties of the Exp.3 selector (SpecExp3)                             *)
(***************************************************************************)

\* C33: a call of expThreeUpdate for an action with a gain leaves a
\* distribution that is computed from the cumulative gains: its entries are
\* not negative, they sum to 1, and an action of greater cumulative gain has
\* the greater probability; the cumulative gain of the action has grown by
\* the gain, the cumulative gains of the other actions are unchanged.
C33_UpdateRecomputes ==
    [][(nevents' = nevents + 1 /\ exp3'.ndraws = exp3.ndraws /\ nsolves' = nsolves) =>
          LET a == picked[Len(picked)] + 1
              n == exp3.nactions
          IN  /\ \A i \in 1 .. n : exp3'.probabilities[i].num >= 0
              /\ PSum(exp3', n) = Rat(1, 1)
              /\ \A i, j \in 1 .. n :
                    RatLess(exp3'.cumulativegain[j], exp3'.cumulativegain[i]) =>
                        RatLess(exp3'.probabilities[j], exp3'.probabilities[i])
              /\ \E gain \in Exp3Gains :
                    exp3'.cumulativegain[a] = RatAdd(exp3.cumulativegain[a], gain)
              /\ \A i \in 1 .. n :
                    i # a => exp3'.cumulativegain[i] = exp3.cumulativegain[i]]_vars

\* C34 as stated: a call of expThreeSelectAction gives the first action
\* whose prefix sum of probabilities is greater than the draw u, an index of
\* 0 .. nactions - 1; it adds 1 to ndraws and leaves probabilities and
\* cumulative gains as they are.
C34_FirstPrefixAbove ==
    [][(nevents' = nevents + 1 /\ Len(picked') = Len(picked) + 1) =>
          LET i == picked'[Len(picked')]
              u == Rat(stream[exp3.rng.pos + 1], RandMax)
          IN  /\ i \in 0 .. (exp3.nactions - 1)
              /\ RatLess(u, PSum(exp3, i + 1))
              /\ \A k \in 0 .. (i - 1) : ~RatLess(u, PSum(exp3, k + 1))
              /\ exp3'.ndraws = exp3.ndraws + 1
              /\ exp3'.probabilities = exp3.probabilities
              /\ exp3'.cumulativegain = exp3.cumulativegain]_vars

\* C34 amended: a call of expThreeSelectAction gives the first action whose
\* prefix sum of probabilities is at least the draw u, an index of
\* 0 .. nactions - 1; it adds 1 to ndraws and leaves probabilities and
\* cumulative gains as they are.
C34_FirstPrefixReached ==
    [][(nevents' = nevents + 1 /\ Len(picked') = Len(picked) + 1) =>
          LET i == picked'[Len(picked')]
              u == Rat(stream[exp3.rng.pos + 1], RandMax)
              reached(k) == u.num * PSum(exp3, k).den <= PSum(exp3, k).num * u.den
          IN  /\ i \in 0 .. (exp3.nactions - 1)
              /\ reached(i + 1)
              /\ \A k \in 0 .. (i - 1) : ~reached(k + 1)
              /\ exp3'.ndraws = exp3.ndraws + 1
              /\ exp3'.probabilities = exp3.probabilities
              /\ exp3'.cumulativegain = exp3.cumulativegain]_vars

\* selections after an update: a draw of 1 gave the last of three actions,
\* a draw of 0 the first
C34_Witness ==
    /\ exp3.nactions = NNEIGHBORHOODS
    /\ exp3.ndraws = 2
    /\ stream[1] = RandMax /\ stream[2] = 0
    /\ picked = <<NNEIGHBORHOODS - 1, 0>>
    /\ exp3.cumulativegain[NNEIGHBORHOODS] = Rat(1, 1)

\* C35: a call of expThreeReset, after any selections and updates, leaves
\* the selector as expThreeCreate makes it (uniform distribution, gains of
\* 0, ndraws 0, a generator of the initial seed at its first word), and the
\* actions selected after a reset are those selected after creation.
C35_ResetIsCreate ==
    /\ [][nsolves' = nsolves + 1 =>
             /\ exp3' = expThreeCreate(exp3.nactions)
             /\ exp3'.ndraws = 0
             /\ exp3'.rng = [alloc |-> TRUE, seed |-> DEFAULT_INITSEED, pos |-> 0]
             /\ \A i \in 1 .. exp3.nactions :
                   /\ exp3'.probabilities[i] = Rat(1, exp3.nactions)
                   /\ exp3'.cumulativegain[i] = Rat(0, 1)]_vars
    /\ [](nsolves > 0 =>
             \A k \in 1 .. Len(picked) :
                 k <= Len(twin.picked) => picked[k] = twin.picked[k])

\* a selection and an update, a reset, and the same selection again
C35_Witness ==
    /\ nsolves = 1
    /\ Len(twin.picked) = 1
    /\ picked = twin.picked
    /\ picked[1] = NNEIGHBORHOODS - 1
    /\ nevents = 4

(***************************************************************************)
(* Properties of the choice of the selector in heurExecLns (Spec)          *)
(***************************************************************************)

\* C37: the neighborhood of a call is selected by the selector that the
\* parameter banditalgo names; with banditalgo = 'e', the default, a call
\* that starts a solve of a sub-problem has drawn once from the Exp.3
\* selector (ndraws grows by 1) and has left the epsilon greedy selector
\* as it was.
C37_SelectionByBanditalgo ==
    [][(pc = "idle" /\ pc' = "solving" /\ params.banditalgo = "e") =>
          /\ exp3'.ndraws = exp3.ndraws + 1
          /\ epsgreedynh' = epsgreedynh]_vars

(***************************************************************************)
(* Properties of the account of nodes (Spec)                               *)
(***************************************************************************)

\* C38: within one outer solve heurdata->usednodes equals the sum of
\* stats.usednodes over the neighborhoods; both are 0 after heurInitLns,
\* both grow by the number of nodes of the sub-SCIP on the return of a call
\* that solved one, a count that starts at 0 when the sub-SCIP is built,
\* and usednodes changes on no other step.
C38_UsedNodesAccount ==
    /\ [](lifecycle = "initialized" =>
             usednodes = nh[RENS].stats.usednodes + nh[RINS].stats.usednodes
                             + nh[MUTA].stats.usednodes)
    /\ [][lifecycle' = "initialized" =>
             IF lifecycle # "initialized"
             THEN usednodes' = 0
             ELSE IF pc = "solving" /\ pc' = "idle"
             THEN /\ usednodes' = usednodes + sub.nnodes
                  /\ nh'[neighborhoodidx].stats.usednodes
                         = nh[neighborhoodidx].stats.usednodes + sub.nnodes
             ELSE /\ usednodes' = usednodes
                  /\ (pc = "idle" /\ pc' = "solving" => sub'.nnodes = 0)
                  /\ (pc = "solving" /\ pc' = "solving" => sub'.nnodes >= sub.nnodes)]_vars

\* two sub-SCIPs of different neighborhoods have each used nodes
C38_Witness ==
    /\ lifecycle = "initialized"
    /\ pc = "idle"
    /\ usednodes = 2 * NodeChunk
    /\ \E a, b \in Neighborhoods :
          /\ a # b
          /\ nh[a].stats.usednodes = NodeChunk
          /\ nh[b].stats.usednodes = NodeChunk

(***************************************************************************)
(* Properties of the reward of a neighborhood (Spec)                       *)
(***************************************************************************)

\* C40: between two calls of heurExecLns every neighborhood has
\* 0 <= nrunsbestsol <= DEFAULT_BESTSOLWEIGHT * nruns; its reward
\* nrunsbestsol / MAX(1, nruns * DEFAULT_BESTSOLWEIGHT) has a denominator of
\* at least 1, lies in [0, 1], and is 0 for a neighborhood without runs.
C40_RewardBound ==
    (lifecycle = "initialized" /\ pc = "idle") =>
        \A i \in Neighborhoods :
            LET st == nh[i].stats
                denominator == IF st.nruns * DEFAULT_BESTSOLWEIGHT > 1
                               THEN st.nruns * DEFAULT_BESTSOLWEIGHT ELSE 1
            IN  /\ 0 <= st.nrunsbestsol
                /\ st.nrunsbestsol <= DEFAULT_BESTSOLWEIGHT * st.nruns
                /\ denominator >= 1
                /\ 0 <= st.nrunsbestsol /\ st.nrunsbestsol <= denominator
                /\ epsRewardLns(nh, i) = [num |-> st.nrunsbestsol, den |-> denominator]
                /\ (st.nruns = 0 => st.nrunsbestsol = 0)

\* a neighborhood whose two runs both found a best solution, its reward is
\* 1, next to a neighborhood without runs
C40_Witness ==
    /\ lifecycle = "initialized"
    /\ pc = "idle"
    /\ \E a, b \in Neighborhoods :
          /\ nh[a].stats.nruns = 2
          /\ nh[a].stats.nrunsbestsol = 2 * DEFAULT_BESTSOLWEIGHT
          /\ nh[b].stats.nruns = 0
          /\ nh[b].stats.nrunsbestsol = 0

(***************************************************************************)
(* Properties of the budget of nodes over the calls (SpecEvents)           *)
(***************************************************************************)

\* C39: a sub-SCIP that processes no more nodes than its node limit keeps
\* heurdata->usednodes within the budget of the call that solved it: on the
\* return of the call usednodes is at most
\*   floor(nodesquot * nnodes) + nodesoffset - 100 * ncalls,
\* with nnodes and ncalls of the outer solve as determineLimits read them,
\* and before the return usednodes plus the nodes of the sub-SCIP is.
C39_NodeBudget ==
    /\ [](pc = "solving" =>
             usednodes + sub.nnodes
                 <= ((params.nodesquot.num * outer.nnodes) \div params.nodesquot.den)
                        + params.nodesoffset - 100 * outer.ncalls)
    /\ [][(pc = "solving" /\ pc' = "idle") =>
             usednodes'
                 <= ((params.nodesquot.num * outer.nnodes) \div params.nodesquot.den)
                        + params.nodesoffset - 100 * outer.ncalls]_vars

\* a call counted after one other has returned from a sub-SCIP that used
\* its whole node limit: usednodes has reached the budget
C39_Witness ==
    /\ pc = "idle"
    /\ outer.ncalls = 2
    /\ usednodes = 2 * NodeChunk
    /\ usednodes = DEFAULT_NODESOFFSET - CALLPENALTY

(***************************************************************************)
(* Properties of varFixingsRens and varFixingsRins (SpecFixings)           *)
(***************************************************************************)

\* C36: neighborhoodFixVariables for rens or rins gives success = FALSE and
\* 0 fixings and leaves both buffers as they were if the node has no LP, or
\* its LP is not solved to optimality, or the problem has no discrete
\* variable, or, for rins, there is no incumbent or the incumbent lives in
\* the original space.  Otherwise the buffers hold, in their first nfixings
\* entries, exactly the discrete variables whose LP value is integral
\* (rens) or equals their incumbent value (rins), each with that value,
\* and nfixings is at most the number of discrete variables.
C36_RelaxationFixings ==
    [][ncallsmade' = ncallsmade + 1 =>
          LET declines ==
                  \/ ~outer.haslp \/ ~outer.lpopt \/ outer.nbinint = 0
                  \/ (neighborhoodidx = RINS /\ (incumbent = <<>> \/ outer.incorig))
              fixed ==
                  {v \in 1 .. outer.nbinint :
                      IF neighborhoodidx = RENS
                      THEN outer.lpsol[v].num % outer.lpsol[v].den = 0
                      ELSE outer.lpsol[v] = incumbent[v]}
          IN  IF declines
              THEN /\ success' = FALSE
                   /\ nfixings' = 0
                   /\ varbuf' = varbuf
                   /\ valbuf' = valbuf
              ELSE /\ nfixings' = Cardinality(fixed)
                   /\ nfixings' <= outer.nbinint
                   /\ {varbuf'[k] : k \in 1 .. nfixings'} = fixed
                   /\ \A k \in 1 .. nfixings' :
                         valbuf'[k] = IF neighborhoodidx = RENS
                                      THEN outer.lpsol[varbuf'[k]]
                                      ELSE incumbent[varbuf'[k]]]_vars

\* rins has fixed the second of two discrete variables, the one whose LP
\* value is the value of the incumbent
C36_Witness ==
    /\ ncallsmade = 1
    /\ neighborhoodidx = RINS
    /\ outer.nbinint = 2
    /\ incumbent # <<>>
    /\ outer.lpsol[1] # incumbent[1]
    /\ outer.lpsol[2] = incumbent[2]
    /\ nfixings = 1
    /\ varbuf[1] = 2
    /\ valbuf[1] = incumbent[2]
    /\ success

(***************************************************************************)
(* Properties of the steps of one sub-solve (SpecSession)                  *)
(***************************************************************************)

\* C31: in a call that builds a sub-SCIP, the sub-SCIP exists from its
\* creation to SCIPfree and the variable map only during the copy; the
\* nested solve runs, and its events arrive, only with the limits and the
\* cutoff set and the event handler catching; the statistics of the
\* selected neighborhood are updated once, by one run, on the step after
\* SCIPsolve has returned, and the sub-SCIP is freed only after that
\* update; when the call has returned, the sub-SCIP, the variable map and
\* the three buffers are released.
C31_SessionOrder ==
    /\ [](pc \notin {"error", "aborted"} =>
             /\ sub.alloc <=> pc \in {"copied", "built", "configured", "solving",
                                      "solved", "updated"}
             /\ varmapf # <<>> <=> pc = "copied"
             /\ sub.eventhdlr <=> pc \in {"solving", "solved", "updated"}
             /\ (pc = "solving" =>
                    /\ sub.nodelimit = solvelimits.nodelimit
                    /\ objlimit.set = ~SCIPisInfinity(outerbounds.upperbound)
                    /\ subvars = [k \in 1 .. Len(probvars) |-> subvars[k]]
                    /\ \A k \in 1 .. Len(probvars) : subvars[k] > EventVars)
             /\ (pc = "idle" =>
                    /\ ~sub.alloc
                    /\ varmapf = <<>>
                    /\ varbuf = <<>> /\ valbuf = <<>> /\ subvars = <<>>))
    /\ [][/\ (nh' # nh =>
                 /\ pc = "solved" /\ pc' = "updated"
                 /\ nh'[neighborhoodidx].stats.nruns
                        = nh[neighborhoodidx].stats.nruns + 1
                 /\ \A i \in Neighborhoods :
                       i # neighborhoodidx => nh'[i] = nh[i])
          /\ (pc = "solved" => nh' # nh)
          /\ (pc \in {"solved", "updated"} => nevents' = nevents /\ submitted' = submitted)
          /\ ((sub.alloc /\ sub'.alloc /\ sub'.nnodes # sub.nnodes) =>
                 pc = "solving" /\ pc' = "solving")
          /\ (nevents' # nevents => pc = "solving" /\ pc' = "solving" /\ sub.eventhdlr)
          /\ ((sub.alloc /\ ~sub'.alloc) => pc = "updated" /\ pc' = "idle")]_vars

\* a call has returned after a nested solve with a cutoff that used nodes
\* and submitted a solution: one more run is counted and nothing of the
\* sub-solve is left
C31_Witness ==
    /\ pc = "idle"
    /\ objlimit.set
    /\ Len(submitted) = 1
    /\ usednodes = NodeChunk
    /\ \E i \in Neighborhoods :
          /\ nh[i].stats.nruns = 1
          /\ nh[i].stats.usednodes = NodeChunk
    /\ ~sub.alloc
    /\ varbuf = <<>> /\ valbuf = <<>> /\ subvars = <<>>

=============================================================================
